---- MODULE Spec2Model ----
(***************************************************************************)
(* Budget app front end (App, FileUpload, DataEntry, ManualEntry,          *)
(* ProjectSetup) together with the ledger / category registry it talks to  *)
(* through utils/api.js.  The back end (backend/app.py) is not part of the *)
(* sources at hand; its operations are modelled from the specification.    *)
(***************************************************************************)
EXTENDS Integers, Sequences, FiniteSets, TLC

(* ------------------------------ bounds --------------------------------- *)
MaxRows == 2        \* longest candidate list of an extraction, longest entry form
MaxOps == 4         \* extractions, field edits and commits of import sessions in a run
MaxFormEdits == 5   \* field edits made in the entry forms in a run
MaxBatches == 2     \* batch requests issued by the entry form in a run
MaxMeReqs == 1      \* add, update and delete requests issued by the table in a run
MaxTableEdits == 2  \* field edits made in the table in a run
MaxOrphans == 1     \* extractions abandoned by leaving the import view in a run

(* --------------------------- value domains ----------------------------- *)
Types == {"Income", "Expenses", "Savings"}

NoProject == 0
ProjectId == 1

NoFile == [mime |-> "", ext |-> ""]
CsvFile == [mime |-> "text/csv", ext |-> "csv"]
PdfFile == [mime |-> "application/pdf", ext |-> "pdf"]
Files == {CsvFile, PdfFile}

\* strings that go through parseFloat are sequences of characters
S10 == <<"1", "0">>
SNeg5 == <<"-", "5">>
S7x == <<"7", "x">>
SEmpty == <<>>

Dates == {"2024-06-01"}
Descs == {"", "x"}
AmountInputs == {S10, SNeg5, SEmpty}    \* what an <input type="number"> can hold

Row(d, t, c, a, ds) ==
    [date |-> d, type |-> t, category |-> c, amount |-> a, description |-> ds]

\* rows the extraction collaborator may return (category guess included)
CandidateRows ==
    { Row("2024-06-01", "Income", "Rent", S10, ""),
      Row("2024-06-01", "Expenses", "", SNeg5, "x"),
      Row("2024-06-01", "Expenses", "Rent", S7x, "") }

RECURSIVE SeqsUpTo(_, _)
SeqsUpTo(S, n) ==
    IF n = 0 THEN {<<>>}
    ELSE LET shorter == SeqsUpTo(S, n - 1)
         IN shorter \cup {Append(s, x) : s \in {q \in shorter : Len(q) = n - 1}, x \in S}

ExtractResults == SeqsUpTo(CandidateRows, MaxRows)

InitialRegistry ==
    << [type |-> "Income", name |-> "Salary"],
       [type |-> "Expenses", name |-> "Rent"] >>

(* ------------------------------ messages ------------------------------- *)
NoMsg == <<>>
Imported(n) == <<"Successfully imported", n>>
Added(n) == <<"Successfully added", n>>

ErrLoadCategories == "Failed to load categories"
ErrUnsupported == "Unsupported file type"
ErrExtract == "Failed to extract data from file"
ErrAssign == "Please assign categories to all transactions"
ErrSave == "Failed to save transactions"
ErrIncomplete == "Please fill in at least one complete transaction"

(* --------------------------- pure functions ---------------------------- *)
Digits == {"0", "1", "2", "3", "4", "5", "6", "7", "8", "9"}

DigitVal(c) ==
    CASE c = "0" -> 0 [] c = "1" -> 1 [] c = "2" -> 2 [] c = "3" -> 3
      [] c = "4" -> 4 [] c = "5" -> 5 [] c = "6" -> 6 [] c = "7" -> 7
      [] c = "8" -> 8 [] c = "9" -> 9

NaN == [kind |-> "NaN", val |-> 0]
Num(n) == [kind |-> "num", val |-> n]

RECURSIVE ParseDigits(_, _, _)
ParseDigits(s, i, acc) ==
    IF i <= Len(s) /\ s[i] \in Digits
    THEN ParseDigits(s, i + 1, acc * 10 + DigitVal(s[i]))
    ELSE acc

\* JavaScript parseFloat on integer literals: optional sign, then the longest
\* run of digits; whatever follows is ignored; no digit at all gives NaN.
parseFloatAbs(s) ==
    LET start == IF Len(s) > 0 /\ s[1] \in {"-", "+"} THEN 2 ELSE 1
    IN  IF start > Len(s) \/ s[start] \notin Digits
        THEN NaN
        ELSE Num(ParseDigits(s, start, 0))

parseFloat(s) ==
    LET neg == Len(s) > 0 /\ s[1] = "-"
        start == IF Len(s) > 0 /\ s[1] \in {"-", "+"} THEN 2 ELSE 1
    IN  IF start > Len(s) \/ s[start] \notin Digits
        THEN NaN
        ELSE Num(IF neg THEN 0 - ParseDigits(s, start, 0)
                        ELSE ParseDigits(s, start, 0))

\* response.data.categories.forEach(cat => categoriesByType[cat.type].push(cat))
categoriesByType(cats) ==
    [t \in Types |->
        LET RECURSIVE Pick(_)
            Pick(i) == IF i > Len(cats) THEN <<>>
                       ELSE IF cats[i].type = t
                            THEN <<cats[i].name>> \o Pick(i + 1)
                            ELSE Pick(i + 1)
        IN Pick(1)]

NoCategories == [t \in Types |-> <<>>]

Range(s) == {s[i] : i \in 1..Len(s)}

RemoveAt(s, k) == [i \in 1..(Len(s) - 1) |-> IF i < k THEN s[i] ELSE s[i + 1]]


(* -------------------- ledger and registry (back end) ------------------- *)
\* categoryExists(project, type, name)
categoryExists(reg, type, name) ==
    \E i \in 1..Len(reg) : reg[i].type = type /\ reg[i].name = name

\* per-row validation of addTransaction / addTransactionsBatch; a NaN amount
\* travels as JSON null and is not a number
ValidTxn(reg, t) ==
    /\ t.amount.kind = "num"
    /\ t.amount.val >= 0
    /\ t.type \in Types
    /\ categoryExists(reg, t.type, t.category)

\* the ledger gives every stored transaction a fresh id
StoredTxn(t, id) ==
    [id |-> id, date |-> t.date, type |-> t.type, category |-> t.category,
     amount |-> t.amount.val, description |-> t.description]

BatchAccepted(reg, txns) == \A i \in 1..Len(txns) : ValidTxn(reg, txns[i])

\* addTransactionsBatch(project, txns): every row is stored or none is
addTransactionsBatchFirstRow(led, reg, txns, first) ==
    IF BatchAccepted(reg, txns) /\ Len(txns) > 0
    THEN Append(led, StoredTxn(txns[1], first))
    ELSE led

addTransactionsBatch(led, reg, txns, first) ==
    IF BatchAccepted(reg, txns)
    THEN led \o [i \in 1..Len(txns) |-> StoredTxn(txns[i], first + i - 1)]
    ELSE led

\* addTransaction(project, txn): stored with a fresh id when it is valid
addTransaction(led, reg, txn, id) ==
    IF ValidTxn(reg, txn) THEN Append(led, StoredTxn(txn, id)) ELSE led

IndexOf(led, id) ==
    IF \E k \in 1..Len(led) : led[k].id = id
    THEN CHOOSE k \in 1..Len(led) : led[k].id = id
    ELSE 0

\* updateTransaction(id, patch): the fields the patch changes are validated
\* as addTransaction validates them
PatchAccepted(reg, old, patch) ==
    /\ patch.amount.kind = "num"
    /\ patch.amount.val # old.amount => patch.amount.val >= 0
    /\ patch.type # old.type => patch.type \in Types
    /\ (patch.type # old.type \/ patch.category # old.category)
          => categoryExists(reg, patch.type, patch.category)

updateTransactionUnchecked(led, reg, id, patch) ==
    LET k == IndexOf(led, id)
    IN  IF k = 0 \/ patch.amount.kind # "num" THEN led
        ELSE [led EXCEPT ![k] = StoredTxn(patch, id)]

updateTransaction(led, reg, id, patch) ==
    LET k == IndexOf(led, id)
    IN  IF k = 0 \/ ~PatchAccepted(reg, led[k], patch)
        THEN led
        ELSE [led EXCEPT ![k] = StoredTxn(patch, id)]

\* deleteTransaction(id)
deleteTransaction(led, id) == SelectSeq(led, LAMBDA t : t.id # id)

(* -------------------------- aggregation (back end) --------------------- *)
\* the dates of the model, as year, month and day
DateParts(date) ==
    CASE date = "2023-12-05" -> <<2023, 12, 5>>
      [] date = "2024-06-01" -> <<2024, 6, 1>>
      [] date = "2024-06-15" -> <<2024, 6, 15>>
      [] date = "2024-07-20" -> <<2024, 7, 20>>

\* the month key MM/YYYY derived from a date, as <<MM, YYYY>>
MonthKey(date) == <<DateParts(date)[2], DateParts(date)[1]>>

DateBefore(d1, d2) ==
    LET a == DateParts(d1)
        b == DateParts(d2)
    IN  \/ a[1] < b[1]
        \/ a[1] = b[1] /\ a[2] < b[2]
        \/ a[1] = b[1] /\ a[2] = b[2] /\ a[3] < b[3]

\* stable insertion of t after every element that is not later than it
RECURSIVE InsertByDate(_, _)
InsertByDate(sorted, t) ==
    IF sorted = <<>> THEN <<t>>
    ELSE IF DateBefore(t.date, sorted[Len(sorted)].date)
         THEN Append(InsertByDate(SubSeq(sorted, 1, Len(sorted) - 1), t),
                     sorted[Len(sorted)])
         ELSE Append(sorted, t)

RECURSIVE SortByDate(_)
SortByDate(led) ==
    IF led = <<>> THEN <<>>
    ELSE InsertByDate(SortByDate(SubSeq(led, 1, Len(led) - 1)), led[Len(led)])

AllTransactions(led) == SortByDate(led)

\* listTransactions(project, month): by date, then by insertion
listTransactions(led, month) ==
    SortByDate(SelectSeq(led, LAMBDA t : MonthKey(t.date) = month))

RECURSIVE SumAmounts(_)
SumAmounts(led) ==
    IF led = <<>> THEN 0 ELSE led[1].amount + SumAmounts(Tail(led))

MonthsOf(led) == {MonthKey(led[k].date) : k \in 1..Len(led)}

\* summarize(project): month key -> type -> sum; a type without a
\* transaction in the month is omitted
summarize(led) ==
    [m \in MonthsOf(led) |->
        LET inMonth == SelectSeq(led, LAMBDA t : MonthKey(t.date) = m)
        IN  [ty \in {inMonth[k].type : k \in 1..Len(inMonth)} |->
                SumAmounts(SelectSeq(inMonth, LAMBDA t : t.type = ty))]]

\* breakdown(project, month, type): category -> sum
breakdown(led, month, type) ==
    LET sel == SelectSeq(led, LAMBDA t : MonthKey(t.date) = month /\ t.type = type)
    IN  [c \in {sel[k].category : k \in 1..Len(sel)} |->
            SumAmounts(SelectSeq(sel, LAMBDA t : t.category = c))]

(* -------------------------------- state -------------------------------- *)
VARIABLES
    currentView, currentProject,          \* App
    dashTransactions, dashSummary, dashSelectedMonth, dashAvailableMonths,
    monthlyBreakdown, barChartType, dashLoading,   \* Dashboard component state
    dashDataReq, dashBrkReqs,             \* Dashboard requests in flight
    registry, ledger, nextId,             \* back end, project ProjectId
    file, fileType, extractedData, fuCategories, fuLoading, fuError,
    fuSuccess, step,                      \* FileUpload component state
    fuCatReq, extractReq,                 \* FileUpload requests in flight
    orphanExtracts,                       \* extractions of unmounted FileUploads
    rows, deCategories, deLoading, deError, deSuccess,   \* DataEntry
    deCatReq,                             \* DataEntry request in flight
    newRow, meCategories, meCatReq,       \* ManualEntry add-row form
    meTransactions, meAvailableMonths, meSelectedMonth, meLoading, meError,
    meSuccess, editingId, editForm,       \* ManualEntry table
    meTxReqs, meSummaryReq, meReqs,       \* ManualEntry requests in flight
    psCategories, psLoading, psError,     \* ProjectSetup (category editor)
    psCatReq, delReqs,                    \* ProjectSetup requests in flight
    batchReqs,                            \* addTransactionsBatch requests
    timers,                               \* pending setTimeout(onComplete)
    ops, opsForm                          \* budget spent, and by which form

appVars == <<currentView, currentProject>>
dashVars == <<dashTransactions, dashSummary, dashSelectedMonth,
              dashAvailableMonths, monthlyBreakdown, barChartType, dashLoading, dashDataReq,
              dashBrkReqs>>
backendVars == <<registry, ledger, nextId>>
fuVars == <<file, fileType, extractedData, fuCategories, fuLoading, fuError,
            fuSuccess, step, fuCatReq, extractReq, orphanExtracts>>
deVars == <<rows, deCategories, deLoading, deError, deSuccess, deCatReq>>
meVars == <<newRow, meCategories, meCatReq, meTransactions, meAvailableMonths,
            meSelectedMonth, meLoading, meError, meSuccess, editingId,
            editForm, meTxReqs, meSummaryReq, meReqs>>
meFormVars == <<newRow, meCategories, meCatReq>>
meTableVars == <<meTransactions, meAvailableMonths, meSelectedMonth, meLoading,
                 editingId, editForm, meTxReqs, meSummaryReq>>
psVars == <<psCategories, psLoading, psError, psCatReq>>
budgetVars == <<ops, opsForm>>
vars == <<currentView, currentProject, dashTransactions, dashSummary,
          dashSelectedMonth, dashAvailableMonths, monthlyBreakdown, barChartType,
          dashLoading, dashDataReq, dashBrkReqs, registry, ledger, nextId, file, fileType,
          extractedData, fuCategories, fuLoading, fuError, fuSuccess, step,
          fuCatReq, extractReq, orphanExtracts, rows, deCategories, deLoading,
          deError,
          deSuccess, deCatReq, newRow, meCategories, meCatReq, meTransactions,
          meAvailableMonths, meSelectedMonth, meLoading, meError, meSuccess,
          editingId, editForm, meTxReqs, meSummaryReq, meReqs,
          psCategories, psLoading, psError,
          psCatReq, delReqs, batchReqs, timers, ops, opsForm>>

\* selectedMonth '' and editingId null
NoMonth == <<>>
NoEdit == 0

NoReq == [pending |-> FALSE, file |-> NoFile, fileType |-> ""]

\* extraction requests whose FileUpload has unmounted: those still awaited,
\* and those whose result has come and gone
NoOrphans == [pending |-> 0, discarded |-> 0]

EmptyRow == Row("", "", "", SEmpty, "")

\* new Date().toISOString().split('T')[0]
Today == "2024-06-01"

InitialNewRow == Row(Today, "Income", "", SEmpty, "")

\* Object.keys(summary).sort(): month keys MM/YYYY compare as strings, that
\* is by month number first and by year second
KeyBefore(a, b) == a[1] < b[1] \/ (a[1] = b[1] /\ a[2] < b[2])

RECURSIVE SortKeys(_)
SortKeys(S) ==
    IF S = {} THEN <<>>
    ELSE LET least == CHOOSE a \in S : \A b \in S \ {a} : KeyBefore(a, b)
         IN  <<least>> \o SortKeys(S \ {least})

Reverse(q) == [i \in 1..Len(q) |-> q[Len(q) + 1 - i]]

\* `${MM}/${YYYY}` of new Date()
CurrentMonth == MonthKey(Today)

\* one form spends the budget of a run
Spend(form, max) ==
    /\ opsForm \in {"", form}
    /\ ops < max
    /\ ops' = ops + 1
    /\ opsForm' = form

\* the component that issued a request is gone: its setState calls are no-ops
EndSession(reqs, tag) ==
    [i \in 1..Len(reqs) |->
        IF reqs[i].sess = "live" THEN [reqs[i] EXCEPT !.sess = tag] ELSE reqs[i]]

\* useState initial values of FileUpload; mounting runs loadCategories
FileUploadMount(mounted) ==
    /\ file' = NoFile
    /\ fileType' = ""
    /\ extractedData' = <<>>
    /\ fuCategories' = NoCategories
    /\ fuLoading' = FALSE
    /\ fuError' = ""
    /\ fuSuccess' = NoMsg
    /\ step' = 1
    /\ fuCatReq' = mounted
    /\ extractReq' = NoReq
    /\ orphanExtracts' =
          IF /\ extractReq.pending
             /\ orphanExtracts.pending + orphanExtracts.discarded < MaxOrphans
          THEN [orphanExtracts EXCEPT !.pending = @ + 1]
          ELSE orphanExtracts

\* useState initial values of DataEntry; mounting runs loadCategories
DataEntryMount(mounted) ==
    /\ rows' = <<EmptyRow>>
    /\ deCategories' = NoCategories
    /\ deLoading' = TRUE
    /\ deError' = ""
    /\ deSuccess' = NoMsg
    /\ deCatReq' = mounted

\* useState initial values of ManualEntry; mounting runs loadInitialData.
\* The requests of the instance that unmounts are answered into nothing.
ManualEntryMount(mounted) ==
    /\ newRow' = InitialNewRow
    /\ meCategories' = NoCategories
    /\ meCatReq' = mounted
    /\ meTransactions' = <<>>
    /\ meAvailableMonths' = <<>>
    /\ meSelectedMonth' = NoMonth
    /\ meLoading' = TRUE
    /\ meError' = ""
    /\ meSuccess' = ""
    /\ editingId' = NoEdit
    /\ editForm' = EmptyRow
    /\ meTxReqs' = {}
    /\ meSummaryReq' = FALSE
    /\ meReqs' = EndSession(meReqs, "closed")

\* useState initial values of ProjectSetup; mounting runs loadCategories
ProjectSetupMount(mounted) ==
    /\ psCategories' = NoCategories
    /\ psLoading' = TRUE
    /\ psError' = ""
    /\ psCatReq' = mounted

\* useState({}) of summary; useState({Income: {}, Expenses: {}, Savings: {}})
NoSummary == [m \in {} |-> 0]
NoBreakdown == [t \in Types |-> [c \in {} |-> 0]]

\* Promise.all([getTransactions, getSummary]) of loadData: what has arrived
DataReq(pending) == [pending |-> pending, txns |-> <<>>, summary |-> <<>>]

\* useState initial values of Dashboard; mounting runs loadData
DashboardMount(mounted) ==
    /\ dashTransactions' = <<>>
    /\ dashSummary' = NoSummary
    /\ dashSelectedMonth' = NoMonth
    /\ dashAvailableMonths' = <<>>
    /\ monthlyBreakdown' = NoBreakdown
    /\ barChartType' = "Income"
    /\ dashLoading' = TRUE
    /\ dashDataReq' = DataReq(mounted)
    /\ dashBrkReqs' = {}

\* setCurrentView(v): the component of the old view unmounts, the one of the
\* new view mounts with fresh state
setCurrentView(v, tag) ==
    IF currentView = v
    THEN UNCHANGED <<currentView, dashVars, fuVars, deVars, meVars, psVars,
                     batchReqs>>
    ELSE /\ currentView' = v
         /\ DashboardMount(v = "dashboard")
         /\ FileUploadMount(v = "file-upload")
         /\ DataEntryMount(v = "data-entry")
         /\ ManualEntryMount(v = "manual-entry")
         /\ ProjectSetupMount(v \in {"edit-categories", "project-setup"})
         /\ batchReqs' = EndSession(batchReqs, tag)

\* the front end as App mounts it
InitFrontEnd ==
    /\ currentView = "project-selection"
    /\ currentProject = NoProject
    /\ dashTransactions = <<>>
    /\ dashSummary = NoSummary
    /\ dashSelectedMonth = NoMonth
    /\ dashAvailableMonths = <<>>
    /\ monthlyBreakdown = NoBreakdown
    /\ barChartType = "Income"
    /\ dashLoading = TRUE
    /\ dashDataReq = DataReq(FALSE)
    /\ dashBrkReqs = {}
    /\ file = NoFile
    /\ fileType = ""
    /\ extractedData = <<>>
    /\ fuCategories = NoCategories
    /\ fuLoading = FALSE
    /\ fuError = ""
    /\ fuSuccess = NoMsg
    /\ step = 1
    /\ fuCatReq = FALSE
    /\ extractReq = NoReq
    /\ orphanExtracts = NoOrphans
    /\ rows = <<EmptyRow>>
    /\ deCategories = NoCategories
    /\ deLoading = TRUE
    /\ deError = ""
    /\ deSuccess = NoMsg
    /\ deCatReq = FALSE
    /\ newRow = InitialNewRow
    /\ meCategories = NoCategories
    /\ meCatReq = FALSE
    /\ meTransactions = <<>>
    /\ meAvailableMonths = <<>>
    /\ meSelectedMonth = NoMonth
    /\ meLoading = TRUE
    /\ meError = ""
    /\ meSuccess = ""
    /\ editingId = NoEdit
    /\ editForm = EmptyRow
    /\ meTxReqs = {}
    /\ meSummaryReq = FALSE
    /\ meReqs = <<>>
    /\ psCategories = NoCategories
    /\ psLoading = TRUE
    /\ psError = ""
    /\ psCatReq = FALSE
    /\ delReqs = {}
    /\ batchReqs = <<>>
    /\ timers = 0
    /\ ops = 0
    /\ opsForm = ""

\* a project with its categories set up and no transaction yet
Init ==
    /\ registry = InitialRegistry
    /\ ledger = <<>>
    /\ nextId = 1
    /\ InitFrontEnd

\* a project in use: a category of every type, and transactions of two
\* months entered earlier
StockRegistry == Append(InitialRegistry, [type |-> "Savings", name |-> "Fund"])

StockLedger ==
    << [id |-> 1, date |-> "2024-06-01", type |-> "Income",
        category |-> "Salary", amount |-> 10, description |-> ""],
       [id |-> 2, date |-> "2024-06-15", type |-> "Expenses",
        category |-> "Rent", amount |-> 7, description |-> "x"],
       [id |-> 3, date |-> "2024-06-15", type |-> "Savings",
        category |-> "Fund", amount |-> 5, description |-> ""],
       [id |-> 4, date |-> "2023-12-05", type |-> "Income",
        category |-> "Salary", amount |-> 3, description |-> ""] >>

InitStocked ==
    /\ registry = StockRegistry
    /\ ledger \in {<<>>, StockLedger}
    /\ nextId = Len(StockLedger) + 1
    /\ InitFrontEnd

(* --------------------------------- App --------------------------------- *)
handleSelectProject(projectId, isNew) ==
    /\ currentView = "project-selection"
    /\ currentProject' = projectId
    /\ setCurrentView(IF isNew THEN "project-setup" ELSE "dashboard", "closed")
    /\ UNCHANGED <<backendVars, delReqs, timers, budgetVars>>

\* Dashboard buttons: onNavigate('data-entry' | 'file-upload' | ...)
\* The buttons are on screen once loadData has settled. The action does not
\* wait for that: Dashboard state is dropped when the view changes and its
\* reads change nothing, so leaving before or after the load reaches the same
\* states; the specifications that serve the dashboard's reads add the wait.
handleNavigate(view) ==
    /\ currentView = "dashboard"
    /\ currentProject # NoProject
    /\ setCurrentView(view, "closed")
    /\ UNCHANGED <<currentProject, backendVars, delReqs, timers, budgetVars>>

handleBackToProjects ==
    /\ currentView = "dashboard"
    /\ currentProject # NoProject
    /\ currentProject' = NoProject
    /\ setCurrentView("project-selection", "closed")
    /\ UNCHANGED <<backendVars, delReqs, timers, budgetVars>>

\* onComplete of DataEntry, FileUpload, ManualEntry, edit-categories
handleBackToDashboard(tag) ==
    /\ setCurrentView("dashboard", tag)
    /\ UNCHANGED currentProject

\* a timer set by a handleSubmit fires, whatever is on screen by then
TimerFires ==
    /\ timers > 0
    /\ timers' = timers - 1
    /\ handleBackToDashboard("closed")
    /\ UNCHANGED <<backendVars, delReqs, budgetVars>>

\* Cancel / back button of ManualEntry: onClick={onComplete}
meCancel ==
    /\ currentView = "manual-entry"
    /\ currentProject # NoProject
    /\ ~(meLoading /\ Len(meTransactions) = 0 /\ Len(meAvailableMonths) = 0)
    /\ handleBackToDashboard("closed")
    /\ UNCHANGED <<backendVars, delReqs, timers, budgetVars>>

(* ------------------------------ Dashboard ------------------------------ *)
OnDashboard == currentView = "dashboard" /\ currentProject # NoProject

\* GET /projects/<id>/transactions of loadData is served
dashReadTransactions ==
    /\ OnDashboard
    /\ dashDataReq.pending
    /\ dashDataReq.txns = <<>>
    /\ dashDataReq' = [dashDataReq EXCEPT !.txns = <<AllTransactions(ledger)>>]
    /\ UNCHANGED <<appVars, barChartType,
                   dashTransactions, dashSummary, dashSelectedMonth,
                   dashAvailableMonths, monthlyBreakdown, dashLoading,
                   dashBrkReqs, backendVars, fuVars, deVars, meVars, psVars,
                   delReqs, batchReqs, timers, budgetVars>>

\* GET /projects/<id>/summary of loadData is served
dashReadSummary ==
    /\ OnDashboard
    /\ dashDataReq.pending
    /\ dashDataReq.summary = <<>>
    /\ dashDataReq' = [dashDataReq EXCEPT !.summary = <<summarize(ledger)>>]
    /\ UNCHANGED <<appVars, barChartType,
                   dashTransactions, dashSummary, dashSelectedMonth,
                   dashAvailableMonths, monthlyBreakdown, dashLoading,
                   dashBrkReqs, backendVars, fuVars, deVars, meVars, psVars,
                   delReqs, batchReqs, timers, budgetVars>>

\* a breakdown load for a month: the three getBreakdown answers so far
BrkReq(month) == [month |-> month, resp |-> [t \in {} |-> 0]]

\* months.includes(currentMonth) ? currentMonth
\*     : months[months.length - 1] || currentMonth
DefaultMonth(months) ==
    IF CurrentMonth \in Range(months) THEN CurrentMonth
    ELSE IF Len(months) > 0 THEN months[Len(months)]
    ELSE CurrentMonth

\* loadData after the await; the month it selects starts loadMonthlyBreakdown
dashLoadData ==
    /\ OnDashboard
    /\ dashDataReq.pending
    /\ dashDataReq.txns # <<>>
    /\ dashDataReq.summary # <<>>
    /\ LET months == SortKeys(DOMAIN dashDataReq.summary[1])
       IN  /\ dashTransactions' = dashDataReq.txns[1]
           /\ dashSummary' = dashDataReq.summary[1]
           /\ dashAvailableMonths' = months
           /\ dashSelectedMonth' = DefaultMonth(months)
           /\ dashBrkReqs' = dashBrkReqs \cup {BrkReq(DefaultMonth(months))}
    /\ dashLoading' = FALSE
    /\ dashDataReq' = DataReq(FALSE)
    /\ UNCHANGED <<appVars, barChartType,
                   monthlyBreakdown, backendVars, fuVars, deVars,
                   meVars, psVars, delReqs, batchReqs, timers, budgetVars>>

\* loadData, one of its requests having failed: the catch block
dashLoadDataFailed ==
    /\ OnDashboard
    /\ dashDataReq.pending
    /\ dashLoading' = FALSE
    /\ dashDataReq' = DataReq(FALSE)
    /\ UNCHANGED <<appVars, barChartType,
                   dashTransactions, dashSummary, dashSelectedMonth,
                   dashAvailableMonths, monthlyBreakdown, dashBrkReqs,
                   backendVars, fuVars, deVars, meVars, psVars, delReqs,
                   batchReqs, timers, budgetVars>>

\* the month select: setSelectedMonth, whose effect runs loadMonthlyBreakdown
dashSelectMonth(month) ==
    /\ OnDashboard
    /\ ~dashLoading
    /\ month \in Range(dashAvailableMonths)
    /\ month # dashSelectedMonth
    /\ dashSelectedMonth' = month
    /\ dashBrkReqs' = dashBrkReqs \cup {BrkReq(month)}
    /\ UNCHANGED <<appVars, barChartType,
                   dashTransactions, dashSummary,
                   dashAvailableMonths, monthlyBreakdown, dashLoading,
                   dashDataReq, backendVars, fuVars, deVars, meVars, psVars,
                   delReqs, batchReqs, timers, budgetVars>>

\* GET /projects/<id>/breakdown for one type of a load is served
dashReadBreakdown(r, type) ==
    /\ OnDashboard
    /\ r \in dashBrkReqs
    /\ type \notin DOMAIN r.resp
    /\ dashBrkReqs' = (dashBrkReqs \ {r}) \cup
          {[r EXCEPT !.resp = [t \in DOMAIN r.resp \cup {type} |->
                                  IF t = type
                                  THEN breakdown(ledger, r.month, type)
                                  ELSE r.resp[t]]]}
    /\ UNCHANGED <<appVars, barChartType,
                   dashTransactions, dashSummary, dashSelectedMonth,
                   dashAvailableMonths, monthlyBreakdown, dashLoading,
                   dashDataReq, backendVars, fuVars, deVars, meVars, psVars,
                   delReqs, batchReqs, timers, budgetVars>>

\* loadMonthlyBreakdown after the await: setMonthlyBreakdown
dashLoadMonthlyBreakdown(r) ==
    /\ OnDashboard
    /\ r \in dashBrkReqs
    /\ DOMAIN r.resp = Types
    /\ monthlyBreakdown' = r.resp
    /\ dashBrkReqs' = dashBrkReqs \ {r}
    /\ UNCHANGED <<appVars, barChartType,
                   dashTransactions, dashSummary, dashSelectedMonth,
                   dashAvailableMonths, dashLoading, dashDataReq, backendVars,
                   fuVars, deVars, meVars, psVars, delReqs, batchReqs, timers,
                   budgetVars>>

\* loadMonthlyBreakdown, one of its requests having failed: the catch block
dashBreakdownFailed(r) ==
    /\ OnDashboard
    /\ r \in dashBrkReqs
    /\ dashBrkReqs' = dashBrkReqs \ {r}
    /\ UNCHANGED <<appVars, barChartType,
                   dashTransactions, dashSummary, dashSelectedMonth,
                   dashAvailableMonths, monthlyBreakdown, dashLoading,
                   dashDataReq, backendVars, fuVars, deVars, meVars, psVars,
                   delReqs, batchReqs, timers, budgetVars>>

\* summary[selectedMonth][type] || 0, and 0 without a month or its entry
getMonthTotal(type) ==
    IF dashSelectedMonth = NoMonth \/ dashSelectedMonth \notin DOMAIN dashSummary
    THEN 0
    ELSE IF type \in DOMAIN dashSummary[dashSelectedMonth]
         THEN dashSummary[dashSelectedMonth][type]
         ELSE 0

getNetChangeLessSavings ==
    getMonthTotal("Income") - getMonthTotal("Expenses") - getMonthTotal("Savings")

getNetChange == getMonthTotal("Income") - getMonthTotal("Expenses")

\* the Income / Expenses / Savings buttons over the bar chart
setBarChartType(type) ==
    /\ OnDashboard
    /\ ~dashLoading
    /\ dashSelectedMonth # NoMonth
    /\ type # barChartType
    /\ barChartType' = type
    /\ UNCHANGED <<appVars, dashTransactions, dashSummary, dashSelectedMonth,
                   dashAvailableMonths, monthlyBreakdown, dashLoading,
                   dashDataReq, dashBrkReqs, backendVars, fuVars, deVars,
                   meVars, psVars, delReqs, batchReqs, timers, budgetVars>>

\* selectedMonth ? selectedMonth.split('/')[1] : new Date().getFullYear()
ChartYear == IF dashSelectedMonth # NoMonth THEN dashSelectedMonth[2] ELSE CurrentMonth[2]

\* selectedMonth ? parseInt(selectedMonth.split('/')[0]) - 1 : -1
selectedMonthIndex == IF dashSelectedMonth # NoMonth THEN dashSelectedMonth[1] - 1 ELSE -1

\* summary[key] ? summary[key][barChartType] || 0 : 0, key being month/year
BarValue(month, year) ==
    IF <<month, year>> \in DOMAIN dashSummary
    THEN IF barChartType \in DOMAIN dashSummary[<<month, year>>]
         THEN dashSummary[<<month, year>>][barChartType]
         ELSE 0
    ELSE 0

\* the same chart drawn for the year of today whatever month is selected
createBarChartDataThisYear ==
    [data |-> [m \in 1..12 |-> BarValue(m, CurrentMonth[2])],
     highlighted |-> [m \in 1..12 |-> m - 1 = selectedMonthIndex]]

\* createBarChartData: the twelve values of the data set in the order of its
\* labels Jan..Dec, and which of its bars take the highlight colour
createBarChartData ==
    [data |-> [m \in 1..12 |-> BarValue(m, ChartYear)],
     highlighted |-> [m \in 1..12 |-> m - 1 = selectedMonthIndex]]

(* ----------------------------- FileUpload ------------------------------ *)
OnFileUpload == currentView = "file-upload" /\ currentProject # NoProject

\* loadCategories: the response carries the registry as it is when served
fuLoadCategories(ok) ==
    /\ OnFileUpload
    /\ fuCatReq
    /\ fuCatReq' = FALSE
    /\ IF ok
       THEN fuCategories' = categoriesByType(registry) /\ UNCHANGED fuError
       ELSE fuError' = ErrLoadCategories /\ UNCHANGED fuCategories
    /\ UNCHANGED <<appVars, dashVars, backendVars, file, fileType, extractedData,
                   fuLoading, fuSuccess, step, extractReq, orphanExtracts, deVars, meVars,
                   psVars, delReqs, batchReqs, timers, budgetVars>>

\* the file type FileUpload derives from a selected file, "" when unsupported
DeclaredType(f) ==
    IF f.mime = "text/csv" \/ f.ext = "csv" THEN "csv"
    ELSE IF f.mime = "application/json" \/ f.ext = "json" THEN "json"
    ELSE IF f.mime = "application/vnd.openxmlformats-officedocument.spreadsheetml.sheet"
            \/ f.ext = "xlsx" THEN "excel"
    ELSE IF f.mime \in {"image/png", "image/jpeg"} THEN "image"
    ELSE ""

\* the same handler in a build that keeps an unsupported file selected
handleFileSelectKeep(selectedFile) ==
    /\ OnFileUpload
    /\ step = 1
    /\ file' = selectedFile
    /\ IF DeclaredType(selectedFile) # ""
       THEN /\ fileType' = DeclaredType(selectedFile)
            /\ UNCHANGED fuError
       ELSE /\ fuError' = ErrUnsupported
            /\ UNCHANGED fileType
    /\ UNCHANGED <<appVars, dashVars, backendVars, extractedData, fuCategories,
                   fuLoading, fuSuccess, step, fuCatReq, extractReq, orphanExtracts, deVars,
                   meVars, psVars, delReqs, batchReqs, timers, budgetVars>>


handleFileSelect(selectedFile) ==
    /\ OnFileUpload
    /\ step = 1
    /\ IF DeclaredType(selectedFile) # ""
       THEN /\ file' = selectedFile
            /\ fileType' = DeclaredType(selectedFile)
            /\ UNCHANGED fuError
       ELSE /\ file' = NoFile
            /\ fuError' = ErrUnsupported
            /\ UNCHANGED fileType
    /\ UNCHANGED <<appVars, dashVars, backendVars, extractedData, fuCategories,
                   fuLoading, fuSuccess, step, fuCatReq, extractReq, orphanExtracts, deVars,
                   meVars, psVars, delReqs, batchReqs, timers, budgetVars>>

\* handleUpload up to the await; the button is disabled while !file || loading
handleUpload ==
    /\ OnFileUpload
    /\ step = 1
    /\ file # NoFile
    /\ ~fuLoading
    /\ Spend("fu", MaxOps)
    /\ fuLoading' = TRUE
    /\ fuError' = ""
    /\ extractReq' = [pending |-> TRUE, file |-> file, fileType |-> fileType]
    /\ UNCHANGED orphanExtracts
    /\ UNCHANGED <<appVars, dashVars, backendVars, file, fileType, extractedData,
                   fuCategories, fuSuccess, step, fuCatReq, deVars, meVars,
                   psVars, delReqs, batchReqs, timers>>

\* data.map(item => ({...item, category: ''}))
processedDataKeep(data) == data

processedData(data) ==
    [i \in 1..Len(data) |-> [data[i] EXCEPT !.category = ""]]

\* handleUpload after the await, the collaborator having answered with data
extractSucceeds(data) ==
    /\ OnFileUpload
    /\ extractReq.pending
    /\ extractedData' = processedData(data)
    /\ step' = 2
    /\ fuLoading' = FALSE
    /\ extractReq' = NoReq
    /\ UNCHANGED orphanExtracts
    /\ UNCHANGED <<appVars, dashVars, backendVars, file, fileType, fuCategories,
                   fuError, fuSuccess, fuCatReq, deVars, meVars, psVars,
                   delReqs, batchReqs, timers, budgetVars>>

\* the same continuation in a build whose failure path leaves loading set
extractFailsStuck ==
    /\ OnFileUpload
    /\ extractReq.pending
    /\ fuError' = ErrExtract
    /\ extractReq' = NoReq
    /\ UNCHANGED orphanExtracts
    /\ UNCHANGED <<appVars, dashVars, backendVars, file, fileType, extractedData,
                   fuCategories, fuLoading, fuSuccess, step, fuCatReq, deVars, meVars,
                   psVars, delReqs, batchReqs, timers, budgetVars>>


\* handleUpload after the await, the collaborator having failed
extractFails ==
    /\ OnFileUpload
    /\ extractReq.pending
    /\ fuError' = ErrExtract
    /\ fuLoading' = FALSE
    /\ extractReq' = NoReq
    /\ UNCHANGED orphanExtracts
    /\ UNCHANGED <<appVars, dashVars, backendVars, file, fileType, extractedData,
                   fuCategories, fuSuccess, step, fuCatReq, deVars, meVars,
                   psVars, delReqs, batchReqs, timers, budgetVars>>

\* handleUpload after the await in a FileUpload that has unmounted: its
\* setExtractedData, setStep, setError and setLoading are no-ops
extractArrivesLateStaging(ok, data) ==
    /\ orphanExtracts.pending > 0
    /\ orphanExtracts' = [pending |-> orphanExtracts.pending - 1,
                          discarded |-> orphanExtracts.discarded + 1]
    /\ IF OnFileUpload /\ ok
       THEN /\ extractedData' = processedData(data)
            /\ step' = 2
       ELSE UNCHANGED <<extractedData, step>>
    /\ UNCHANGED <<appVars, dashVars, backendVars, file, fileType, fuCategories,
                   fuLoading, fuError, fuSuccess, fuCatReq, extractReq, deVars,
                   meVars, psVars, delReqs, batchReqs, timers, budgetVars>>

extractArrivesLate(ok, data) ==
    /\ orphanExtracts.pending > 0
    /\ orphanExtracts' = [pending |-> orphanExtracts.pending - 1,
                          discarded |-> orphanExtracts.discarded + 1]
    /\ UNCHANGED <<appVars, dashVars, backendVars, file, fileType, extractedData,
                   fuCategories, fuLoading, fuError, fuSuccess, step, fuCatReq,
                   extractReq, deVars, meVars, psVars, delReqs, batchReqs,
                   timers, budgetVars>>

Fields == {"date", "type", "category", "amount", "description"}

\* newData[index][field] = value; a type change also empties the category
ChangeFieldKeep(data, index, field, value) ==
    [data EXCEPT ![index] = [@ EXCEPT ![field] = value]]

ChangeField(data, index, field, value) ==
    [data EXCEPT ![index] =
        IF field = "type"
        THEN [@ EXCEPT !.type = value, !.category = ""]
        ELSE [@ EXCEPT ![field] = value]]

\* the values the staging table's inputs offer for a field of a row
StagingOptions(row, field) ==
    CASE field = "date" -> Dates
      [] field = "type" -> Types
      [] field = "category" -> {""} \cup Range(fuCategories[row.type])
      [] field = "amount" -> AmountInputs
      [] field = "description" -> Descs

handleDataChange(index, field, value) ==
    /\ OnFileUpload
    /\ step = 2
    /\ index \in 1..Len(extractedData)
    /\ value \in StagingOptions(extractedData[index], field)
    /\ value # extractedData[index][field]
    /\ Spend("fu", MaxOps)
    /\ extractedData' = ChangeField(extractedData, index, field, value)
    /\ UNCHANGED <<appVars, dashVars, backendVars, file, fileType, fuCategories,
                   fuLoading, fuError, fuSuccess, step, fuCatReq, extractReq, orphanExtracts,
                   deVars, meVars, psVars, delReqs, batchReqs, timers>>

handleRemoveRow(index) ==
    /\ OnFileUpload
    /\ step = 2
    /\ index \in 1..Len(extractedData)
    /\ extractedData' = RemoveAt(extractedData, index)
    /\ UNCHANGED <<appVars, dashVars, backendVars, file, fileType, fuCategories,
                   fuLoading, fuError, fuSuccess, step, fuCatReq, extractReq, orphanExtracts,
                   deVars, meVars, psVars, delReqs, batchReqs, timers,
                   budgetVars>>

\* extractedData.map(row => ({..., amount: parseFloat(row.amount), ...}))
fuTransactionsValidOnly(data) ==
    SelectSeq([i \in 1..Len(data) |->
                  [date |-> data[i].date, type |-> data[i].type,
                   category |-> data[i].category,
                   amount |-> parseFloat(data[i].amount),
                   description |-> data[i].description]],
              LAMBDA t : t.amount.kind = "num" /\ t.amount.val >= 0)

fuTransactions(data) ==
    [i \in 1..Len(data) |->
        [date |-> data[i].date, type |-> data[i].type,
         category |-> data[i].category,
         amount |-> parseFloat(data[i].amount),
         description |-> data[i].description]]

\* a request in flight, with what the handler that awaits it closed over
BatchReq(src, closureRows, txns) ==
    [src |-> src, rows |-> closureRows, txns |-> txns, status |-> "sent",
     sess |-> "live"]

\* extractedData.filter(row => !row.category)
invalidRowsNone(data) == {}

invalidRows(data) == {i \in 1..Len(data) : data[i].category = ""}

\* handleSubmit up to the await: the Save button of the staging table
fuHandleSubmit ==
    /\ OnFileUpload
    /\ step = 2
    /\ fuSuccess' = NoMsg
    /\ IF invalidRows(extractedData) # {}
       THEN /\ fuError' = ErrAssign
            /\ UNCHANGED <<batchReqs, budgetVars>>
       ELSE /\ Spend("fu", MaxOps)
            /\ fuError' = ""
            /\ batchReqs' = Append(batchReqs,
                   BatchReq("fu", extractedData, fuTransactions(extractedData)))
    /\ UNCHANGED <<appVars, dashVars, backendVars, file, fileType, extractedData,
                   fuCategories, fuLoading, step, fuCatReq, extractReq, orphanExtracts,
                   deVars, meVars, psVars, delReqs, timers>>

\* handleSubmit after the await, the request having succeeded
fuSubmitSucceeded(i) ==
    /\ i \in 1..Len(batchReqs)
    /\ batchReqs[i].src = "fu"
    /\ batchReqs[i].status = "ok"
    /\ batchReqs' = [batchReqs EXCEPT ![i].status = "done_ok"]
    /\ IF batchReqs[i].sess = "live"
       THEN fuSuccess' = Imported(Len(batchReqs[i].txns))
       ELSE UNCHANGED fuSuccess
    /\ timers' = timers + 1
    /\ UNCHANGED <<appVars, dashVars, backendVars, file, fileType, extractedData,
                   fuCategories, fuLoading, fuError, step, fuCatReq,
                   extractReq, orphanExtracts, deVars, meVars, psVars, delReqs, budgetVars>>

\* handleSubmit after the await, the request having failed: the catch block
SaveFailedReset(live) ==
    IF live
    THEN fuError' = ErrSave /\ step' = 1 /\ extractedData' = <<>>
    ELSE UNCHANGED <<fuError, step, extractedData>>

SaveFailed(live) ==
    IF live
    THEN fuError' = ErrSave /\ UNCHANGED <<step, extractedData>>
    ELSE UNCHANGED <<fuError, step, extractedData>>

fuSubmitFailed(i) ==
    /\ i \in 1..Len(batchReqs)
    /\ batchReqs[i].src = "fu"
    /\ batchReqs[i].status = "fail"
    /\ batchReqs' = [batchReqs EXCEPT ![i].status = "done_fail"]
    /\ SaveFailed(batchReqs[i].sess = "live")
    /\ UNCHANGED <<appVars, dashVars, backendVars, file, fileType, fuCategories,
                   fuLoading, fuSuccess, fuCatReq, extractReq, orphanExtracts, deVars,
                   meVars, psVars, delReqs, timers, budgetVars>>

\* "Back to Upload": onClick={() => setStep(1)}
fuBackToUpload ==
    /\ OnFileUpload
    /\ step = 2
    /\ step' = 1
    /\ UNCHANGED <<appVars, dashVars, backendVars, file, fileType, extractedData,
                   fuCategories, fuLoading, fuError, fuSuccess, fuCatReq,
                   extractReq, orphanExtracts, deVars, meVars, psVars, delReqs, batchReqs,
                   timers, budgetVars>>

\* a commit of the mounted session has been stored by the back end
Committed ==
    \E i \in 1..Len(batchReqs) :
        /\ batchReqs[i].sess = "live"
        /\ batchReqs[i].status \in {"ok", "done_ok"}

\* the Cancel buttons of both steps: onClick={onComplete}
fuCancel ==
    /\ OnFileUpload
    /\ handleBackToDashboard(IF Committed THEN "closed" ELSE "cancelled")
    /\ UNCHANGED <<backendVars, delReqs, timers, budgetVars>>

(* ------------------------------ DataEntry ------------------------------ *)
OnDataEntry == currentView = "data-entry" /\ currentProject # NoProject

deLoadCategories(ok) ==
    /\ OnDataEntry
    /\ deCatReq
    /\ deCatReq' = FALSE
    /\ deLoading' = FALSE
    /\ IF ok
       THEN deCategories' = categoriesByType(registry) /\ UNCHANGED deError
       ELSE deError' = ErrLoadCategories /\ UNCHANGED deCategories
    /\ UNCHANGED <<appVars, dashVars, backendVars, fuVars, rows, deSuccess, meVars,
                   psVars, delReqs, batchReqs, timers, budgetVars>>

deHandleAddRow ==
    /\ OnDataEntry
    /\ ~deLoading
    /\ Len(rows) < MaxRows
    /\ rows' = Append(rows, EmptyRow)
    /\ UNCHANGED <<appVars, dashVars, backendVars, fuVars, deCategories, deLoading,
                   deError, deSuccess, deCatReq, meVars, psVars, delReqs,
                   batchReqs, timers, budgetVars>>

deHandleRemoveRow(index) ==
    /\ OnDataEntry
    /\ ~deLoading
    /\ index \in 1..Len(rows)
    /\ Len(rows) > 1
    /\ rows' = RemoveAt(rows, index)
    /\ UNCHANGED <<appVars, dashVars, backendVars, fuVars, deCategories, deLoading,
                   deError, deSuccess, deCatReq, meVars, psVars, delReqs,
                   batchReqs, timers, budgetVars>>

\* newRows[index][field] = value; a type change also empties the category
deChangeField(data, index, field, value) ==
    [data EXCEPT ![index] =
        IF field = "type"
        THEN [@ EXCEPT !.type = value, !.category = ""]
        ELSE [@ EXCEPT ![field] = value]]

\* the values the entry form's inputs offer for a field of a row; the
\* category select is disabled while the row has no type
EntryOptions(cats, row, field, typeOptions) ==
    CASE field = "date" -> Dates \cup {""}
      [] field = "type" -> typeOptions
      [] field = "category" ->
            IF row.type = "" THEN {} ELSE {""} \cup Range(cats[row.type])
      [] field = "amount" -> AmountInputs
      [] field = "description" -> Descs

handleRowChange(index, field, value) ==
    /\ OnDataEntry
    /\ ~deLoading
    /\ index \in 1..Len(rows)
    /\ value \in EntryOptions(deCategories, rows[index], field, Types \cup {""})
    /\ value # rows[index][field]
    /\ Spend("de", MaxFormEdits)
    /\ rows' = deChangeField(rows, index, field, value)
    /\ UNCHANGED <<appVars, dashVars, backendVars, fuVars, deCategories, deLoading,
                   deError, deSuccess, deCatReq, meVars, psVars, delReqs,
                   batchReqs, timers>>

\* the browser's constraint validation of the form: date, type, category and
\* amount are required, amount is a number input with min="0"; the submit
\* event is not dispatched while a control is invalid
FormValid(data) ==
    \A i \in 1..Len(data) :
        /\ data[i].date # ""
        /\ data[i].type # ""
        /\ data[i].category # ""
        /\ parseFloat(data[i].amount).kind = "num"
        /\ parseFloat(data[i].amount).val >= 0

\* rows.filter(row => row.date && row.type && row.category && row.amount)
validRows(data) ==
    SelectSeq(data, LAMBDA row : /\ row.date # ""
                                 /\ row.type # ""
                                 /\ row.category # ""
                                 /\ row.amount # SEmpty)

deTransactions(data) ==
    [i \in 1..Len(data) |->
        [date |-> data[i].date, type |-> data[i].type,
         category |-> data[i].category,
         amount |-> parseFloat(data[i].amount),
         description |-> data[i].description]]

\* handleSubmit up to the await: the form's submit event
deHandleSubmit ==
    /\ OnDataEntry
    /\ ~deLoading
    /\ FormValid(rows)
    /\ deSuccess' = NoMsg
    /\ IF Len(validRows(rows)) = 0
       THEN /\ deError' = ErrIncomplete
            /\ UNCHANGED batchReqs
       ELSE /\ Len(batchReqs) < MaxBatches
            /\ deError' = ""
            /\ batchReqs' = Append(batchReqs,
                   BatchReq("de", rows, deTransactions(validRows(rows))))
    /\ UNCHANGED <<appVars, dashVars, backendVars, fuVars, rows, deCategories,
                   deLoading, deCatReq, meVars, psVars, delReqs, timers,
                   budgetVars>>

\* handleSubmit after the await, the request having succeeded
deSubmitSucceeded(i) ==
    /\ i \in 1..Len(batchReqs)
    /\ batchReqs[i].src = "de"
    /\ batchReqs[i].status = "ok"
    /\ batchReqs' = [batchReqs EXCEPT ![i].status = "done_ok"]
    /\ IF batchReqs[i].sess = "live"
       THEN /\ deSuccess' = Added(Len(batchReqs[i].txns))
            /\ rows' = <<EmptyRow>>
       ELSE UNCHANGED <<deSuccess, rows>>
    /\ timers' = timers + 1
    /\ UNCHANGED <<appVars, dashVars, backendVars, fuVars, deCategories, deLoading,
                   deError, deCatReq, meVars, psVars, delReqs, budgetVars>>

\* handleSubmit after the await, the request having failed
deSubmitFailed(i) ==
    /\ i \in 1..Len(batchReqs)
    /\ batchReqs[i].src = "de"
    /\ batchReqs[i].status = "fail"
    /\ batchReqs' = [batchReqs EXCEPT ![i].status = "done_fail"]
    /\ IF batchReqs[i].sess = "live"
       THEN deError' = ErrSave
       ELSE UNCHANGED deError
    /\ UNCHANGED <<appVars, dashVars, backendVars, fuVars, rows, deCategories,
                   deLoading, deSuccess, deCatReq, meVars, psVars, delReqs,
                   timers, budgetVars>>

\* the Cancel button: onClick={onComplete}
deCancel ==
    /\ OnDataEntry
    /\ ~deLoading
    /\ handleBackToDashboard("closed")
    /\ UNCHANGED <<backendVars, delReqs, timers, budgetVars>>

(* ----------------------------- ManualEntry ----------------------------- *)
OnManualEntry == currentView = "manual-entry" /\ currentProject # NoProject

MeErrInitial == "Failed to load initial data"
MeErrLoad == "Failed to load transactions"
MeErrRequired == "Please fill in all required fields"
MeErrAdd == "Failed to add transaction"
MeErrUpdate == "Failed to update transaction"
MeErrDelete == "Failed to delete transaction"
MeAdded == "Transaction added successfully"
MeUpdated == "Transaction updated successfully"
MeDeleted == "Transaction deleted successfully"

\* the card is rendered unless the component is loading with nothing to show
MeVisible ==
    /\ OnManualEntry
    /\ ~(meLoading /\ Len(meTransactions) = 0 /\ Len(meAvailableMonths) = 0)

\* loadInitialData after the await; the month it selects starts loadTransactions
meLoadInitialData(ok) ==
    /\ OnManualEntry
    /\ meCatReq
    /\ meCatReq' = FALSE
    /\ IF ok
       THEN LET months == Reverse(SortKeys(DOMAIN summarize(ledger)))
                sel == IF Len(months) > 0 /\ CurrentMonth \notin Range(months)
                       THEN months[1] ELSE CurrentMonth
            IN  /\ meCategories' = categoriesByType(registry)
                /\ meAvailableMonths' = months
                /\ meSelectedMonth' = sel
                /\ meTxReqs' = meTxReqs \cup {sel}
                /\ meLoading' = TRUE
                /\ UNCHANGED meError
       ELSE /\ meError' = MeErrInitial
            /\ meLoading' = FALSE
            /\ UNCHANGED <<meCategories, meAvailableMonths, meSelectedMonth,
                           meTxReqs>>
    /\ UNCHANGED <<appVars, dashVars, backendVars, fuVars, deVars, newRow,
                   meTransactions, meSuccess, editingId, editForm,
                   meSummaryReq, meReqs, psVars, delReqs, batchReqs, timers,
                   budgetVars>>

\* loadTransactions after the await, for the month the request was made for
meLoadTransactions(month, ok) ==
    /\ OnManualEntry
    /\ month \in meTxReqs
    /\ meTxReqs' = meTxReqs \ {month}
    /\ meLoading' = FALSE
    /\ IF ok
       THEN meTransactions' = listTransactions(ledger, month) /\ UNCHANGED meError
       ELSE meError' = MeErrLoad /\ UNCHANGED meTransactions
    /\ UNCHANGED <<appVars, dashVars, backendVars, fuVars, deVars, meFormVars,
                   meAvailableMonths, meSelectedMonth, meSuccess, editingId,
                   editForm, meSummaryReq, meReqs, psVars, delReqs, batchReqs,
                   timers, budgetVars>>

\* the month select: setSelectedMonth, whose effect runs loadTransactions
meSelectMonth(month) ==
    /\ MeVisible
    /\ month \in Range(meAvailableMonths)
    /\ month # meSelectedMonth
    /\ meSelectedMonth' = month
    /\ meLoading' = TRUE
    /\ meTxReqs' = meTxReqs \cup {month}
    /\ UNCHANGED <<appVars, dashVars, backendVars, fuVars, deVars, meFormVars,
                   meTransactions, meAvailableMonths, meError, meSuccess,
                   editingId, editForm, meSummaryReq, meReqs, psVars, delReqs,
                   batchReqs, timers, budgetVars>>

\* updated = {...prev, [field]: value}; if (field === 'type') updated.category = ''
meChangeField(row, field, value) ==
    IF field = "type"
    THEN [row EXCEPT !.type = value, !.category = ""]
    ELSE [row EXCEPT ![field] = value]

handleNewRowChange(field, value) ==
    /\ MeVisible
    /\ value \in EntryOptions(meCategories, newRow, field, Types)
    /\ value # newRow[field]
    /\ Spend("me", MaxFormEdits)
    /\ newRow' = meChangeField(newRow, field, value)
    /\ UNCHANGED <<appVars, dashVars, backendVars, fuVars, deVars, meCategories,
                   meCatReq, meTableVars, meError, meSuccess, meReqs, psVars,
                   delReqs, batchReqs, timers>>

\* a request of the table in flight, with what its handler closed over
MeReq(kind, id, form, txn, month) ==
    [kind |-> kind, id |-> id, form |-> form, txn |-> txn, month |-> month,
     status |-> "sent", sess |-> "live"]

\* {...row, amount: parseFloat(row.amount)}
meTransaction(row) ==
    [date |-> row.date, type |-> row.type, category |-> row.category,
     amount |-> parseFloat(row.amount), description |-> row.description]

\* !newRow.date || !newRow.category || !newRow.amount
meIncompleteNever(row) == FALSE

meIncomplete(row) == row.date = "" \/ row.category = "" \/ row.amount = SEmpty

\* handleAddRow up to the await: the "+ Add" button
handleAddRow ==
    /\ MeVisible
    /\ IF meIncomplete(newRow)
       THEN /\ meError' = MeErrRequired
            /\ UNCHANGED meReqs
       ELSE /\ Len(meReqs) < MaxMeReqs
            /\ meReqs' = Append(meReqs,
                   MeReq("add", NoEdit, newRow, meTransaction(newRow),
                         meSelectedMonth))
            /\ UNCHANGED meError
    /\ UNCHANGED <<appVars, dashVars, backendVars, fuVars, deVars, meFormVars,
                   meTableVars, meSuccess, psVars, delReqs, batchReqs, timers,
                   budgetVars>>

\* a handler's continuation for request i of the given kind and outcome
MeAnswered(i, kind, status) ==
    /\ i \in 1..Len(meReqs)
    /\ meReqs[i].kind = kind
    /\ meReqs[i].status = status
    /\ meReqs' = [meReqs EXCEPT ![i].status = "done_" \o status]

\* loadTransactions() called by a continuation of a mounted instance
meReload(month) ==
    /\ meLoading' = TRUE
    /\ meTxReqs' = meTxReqs \cup {month}

\* handleAddRow after the await, the transaction having been added
meAddSucceeded(i) ==
    /\ MeAnswered(i, "add", "ok")
    /\ IF meReqs[i].sess = "live"
       THEN /\ meSuccess' = MeAdded
            /\ newRow' = InitialNewRow
            /\ meReload(meReqs[i].month)
            /\ meSummaryReq' = TRUE
       ELSE UNCHANGED <<meSuccess, newRow, meLoading, meTxReqs, meSummaryReq>>
    /\ UNCHANGED <<appVars, dashVars, backendVars, fuVars, deVars, meCategories,
                   meCatReq, meTransactions, meAvailableMonths,
                   meSelectedMonth, meError, editingId, editForm, psVars,
                   delReqs, batchReqs, timers, budgetVars>>

\* handleAddRow after its second await: the months list is refreshed
meSummaryLoaded(ok) ==
    /\ OnManualEntry
    /\ meSummaryReq
    /\ meSummaryReq' = FALSE
    /\ IF ok
       THEN /\ meAvailableMonths' = Reverse(SortKeys(DOMAIN summarize(ledger)))
            /\ UNCHANGED meError
       ELSE /\ meError' = MeErrAdd
            /\ UNCHANGED meAvailableMonths
    /\ UNCHANGED <<appVars, dashVars, backendVars, fuVars, deVars, meFormVars,
                   meTransactions, meSelectedMonth, meLoading, meSuccess,
                   editingId, editForm, meTxReqs, meReqs, psVars, delReqs,
                   batchReqs, timers, budgetVars>>

\* the catch blocks of handleAddRow, handleSaveEdit and handleDelete
meRequestFailed(i, kind) ==
    /\ MeAnswered(i, kind, "fail")
    /\ IF meReqs[i].sess = "live"
       THEN meError' = CASE kind = "add" -> MeErrAdd
                         [] kind = "update" -> MeErrUpdate
                         [] kind = "delete" -> MeErrDelete
       ELSE UNCHANGED meError
    /\ UNCHANGED <<appVars, dashVars, backendVars, fuVars, deVars, meFormVars,
                   meTableVars, meSuccess, psVars, delReqs, batchReqs, timers,
                   budgetVars>>

DigitChar(n) ==
    CASE n = 0 -> "0" [] n = 1 -> "1" [] n = 2 -> "2" [] n = 3 -> "3"
      [] n = 4 -> "4" [] n = 5 -> "5" [] n = 6 -> "6" [] n = 7 -> "7"
      [] n = 8 -> "8" [] n = 9 -> "9"

\* the text a number input shows for a stored amount
RECURSIVE NumToText(_)
NumToText(n) ==
    IF n < 10 THEN <<DigitChar(n)>>
    ELSE Append(NumToText(n \div 10), DigitChar(n % 10))

\* the row of the table that is in edit mode, if it is on screen
EditRowShown ==
    /\ MeVisible
    /\ \E k \in 1..Len(meTransactions) : meTransactions[k].id = editingId

\* handleEdit(transaction): setEditForm({...transaction})
handleEdit(t) ==
    /\ MeVisible
    /\ t \in Range(meTransactions)
    /\ t.id # editingId
    /\ editingId' = t.id
    /\ editForm' = Row(t.date, t.type, t.category, NumToText(t.amount),
                       t.description)
    /\ UNCHANGED <<appVars, dashVars, backendVars, fuVars, deVars, meFormVars,
                   meTransactions, meAvailableMonths, meSelectedMonth,
                   meLoading, meError, meSuccess, meTxReqs, meSummaryReq,
                   meReqs, psVars, delReqs, batchReqs, timers, budgetVars>>

handleCancelEdit ==
    /\ EditRowShown
    /\ editingId' = NoEdit
    /\ editForm' = EmptyRow
    /\ UNCHANGED <<appVars, dashVars, backendVars, fuVars, deVars, meFormVars,
                   meTransactions, meAvailableMonths, meSelectedMonth,
                   meLoading, meError, meSuccess, meTxReqs, meSummaryReq,
                   meReqs, psVars, delReqs, batchReqs, timers, budgetVars>>

\* setEditForm(prev => ({...prev, [field]: value})): the category stays
handleEditChange(field, value) ==
    /\ EditRowShown
    /\ value \in EntryOptions(meCategories, editForm, field, Types)
    /\ value # editForm[field]
    /\ Spend("edit", MaxFormEdits)
    /\ editForm' = [editForm EXCEPT ![field] = value]
    /\ UNCHANGED <<appVars, dashVars, backendVars, fuVars, deVars, meFormVars,
                   meTransactions, meAvailableMonths, meSelectedMonth,
                   meLoading, meError, meSuccess, editingId, meTxReqs,
                   meSummaryReq, meReqs, psVars, delReqs, batchReqs, timers>>

\* handleSaveEdit up to the await
handleSaveEdit ==
    /\ EditRowShown
    /\ Len(meReqs) < MaxMeReqs
    /\ meReqs' = Append(meReqs,
           MeReq("update", editingId, editForm, meTransaction(editForm),
                 meSelectedMonth))
    /\ UNCHANGED <<appVars, dashVars, backendVars, fuVars, deVars, meFormVars,
                   meTableVars, meError, meSuccess, psVars, delReqs,
                   batchReqs, timers, budgetVars>>

\* handleSaveEdit after the await, the update having been stored
meUpdateSucceeded(i) ==
    /\ MeAnswered(i, "update", "ok")
    /\ IF meReqs[i].sess = "live"
       THEN /\ meSuccess' = MeUpdated
            /\ editingId' = NoEdit
            /\ meReload(meReqs[i].month)
       ELSE UNCHANGED <<meSuccess, editingId, meLoading, meTxReqs>>
    /\ UNCHANGED <<appVars, dashVars, backendVars, fuVars, deVars, meFormVars,
                   meTransactions, meAvailableMonths, meSelectedMonth,
                   meError, editForm, meSummaryReq, psVars, delReqs,
                   batchReqs, timers, budgetVars>>

\* handleDelete(id) up to the await, the user having confirmed
handleDelete(id) ==
    /\ MeVisible
    /\ id # editingId
    /\ \E k \in 1..Len(meTransactions) : meTransactions[k].id = id
    /\ Len(meReqs) < MaxMeReqs
    /\ meReqs' = Append(meReqs,
           MeReq("delete", id, EmptyRow, meTransaction(EmptyRow),
                 meSelectedMonth))
    /\ UNCHANGED <<appVars, dashVars, backendVars, fuVars, deVars, meFormVars,
                   meTableVars, meError, meSuccess, psVars, delReqs,
                   batchReqs, timers, budgetVars>>

\* handleDelete after the await, the transaction having been deleted
meDeleteSucceeded(i) ==
    /\ MeAnswered(i, "delete", "ok")
    /\ IF meReqs[i].sess = "live"
       THEN /\ meSuccess' = MeDeleted
            /\ meReload(meReqs[i].month)
       ELSE UNCHANGED <<meSuccess, meLoading, meTxReqs>>
    /\ UNCHANGED <<appVars, dashVars, backendVars, fuVars, deVars, meFormVars,
                   meTransactions, meAvailableMonths, meSelectedMonth,
                   meError, editingId, editForm, meSummaryReq, psVars,
                   delReqs, batchReqs, timers, budgetVars>>

\* setTimeout(() => setError(''), 3000) and setTimeout(() => setSuccess(''), 3000)
meMessageTimeout ==
    /\ OnManualEntry
    /\ \/ meError # "" /\ meError' = "" /\ UNCHANGED meSuccess
       \/ meSuccess # "" /\ meSuccess' = "" /\ UNCHANGED meError
    /\ UNCHANGED <<appVars, dashVars, backendVars, fuVars, deVars, meFormVars,
                   meTableVars, meReqs, psVars, delReqs, batchReqs, timers,
                   budgetVars>>

(* ----------------------------- ProjectSetup ---------------------------- *)
OnProjectSetup ==
    currentView \in {"edit-categories", "project-setup"} /\ currentProject # NoProject

psLoadCategories(ok) ==
    /\ OnProjectSetup
    /\ psCatReq
    /\ psCatReq' = FALSE
    /\ psLoading' = FALSE
    /\ IF ok
       THEN psCategories' = categoriesByType(registry) /\ UNCHANGED psError
       ELSE psError' = ErrLoadCategories /\ UNCHANGED psCategories
    /\ UNCHANGED <<appVars, dashVars, backendVars, fuVars, deVars, meVars, delReqs,
                   batchReqs, timers, budgetVars>>

\* handleDeleteCategory up to the await: the request leaves for the back end
handleDeleteCategory(type, name) ==
    /\ OnProjectSetup
    /\ ~psLoading
    /\ name \in Range(psCategories[type])
    /\ [type |-> type, name |-> name] \notin delReqs
    /\ delReqs' = delReqs \cup {[type |-> type, name |-> name]}
    /\ UNCHANGED <<appVars, dashVars, backendVars, fuVars, deVars, meVars, psVars,
                   batchReqs, timers, budgetVars>>

\* canProceed(): some category of some type is listed
canProceed ==
    \E t \in Types : Len(psCategories[t]) > 0

\* "Continue to Dashboard": onClick={onComplete}, disabled={!canProceed()}
psComplete ==
    /\ OnProjectSetup
    /\ ~psLoading
    /\ canProceed
    /\ handleBackToDashboard("closed")
    /\ UNCHANGED <<backendVars, delReqs, timers, budgetVars>>

(* ------------------------- back end, requests -------------------------- *)
\* POST /projects/<id>/transactions/batch is served, or is lost on the way
serveBatch(i, delivered) ==
    /\ i \in 1..Len(batchReqs)
    /\ batchReqs[i].status = "sent"
    /\ LET accepted == delivered /\ BatchAccepted(registry, batchReqs[i].txns)
       IN  /\ ledger' = IF delivered
                        THEN addTransactionsBatch(ledger, registry,
                                                  batchReqs[i].txns, nextId)
                        ELSE ledger
           /\ nextId' = nextId + Len(ledger') - Len(ledger)
           /\ batchReqs' = [batchReqs EXCEPT
                               ![i].status = IF accepted THEN "ok" ELSE "fail"]
    /\ UNCHANGED <<appVars, dashVars, registry, fuVars, deVars, meVars, psVars, delReqs,
                   timers, budgetVars>>

\* deleteCategory(categoryId): removes the category, touches no transaction
deleteCategory(reg, c) == SelectSeq(reg, LAMBDA x : x # c)

\* DELETE /categories/<id> is served; handleDeleteCategory then reloads the list
serveDeleteCascade(c) ==
    /\ c \in delReqs
    /\ delReqs' = delReqs \ {c}
    /\ registry' = deleteCategory(registry, c)
    /\ ledger' = SelectSeq(ledger,
                    LAMBDA t : ~(t.type = c.type /\ t.category = c.name))
    /\ IF OnProjectSetup
       THEN psCatReq' = TRUE /\ UNCHANGED <<psCategories, psLoading, psError>>
       ELSE UNCHANGED psVars
    /\ UNCHANGED <<appVars, dashVars, nextId, fuVars, deVars, meVars, batchReqs,
                   timers, budgetVars>>

serveDelete(c) ==
    /\ c \in delReqs
    /\ delReqs' = delReqs \ {c}
    /\ registry' = deleteCategory(registry, c)
    /\ IF OnProjectSetup
       THEN psCatReq' = TRUE /\ UNCHANGED <<psCategories, psLoading, psError>>
       ELSE UNCHANGED psVars
    /\ UNCHANGED <<appVars, dashVars, ledger, nextId, fuVars, deVars, meVars, batchReqs,
                   timers, budgetVars>>

\* the answer to request i of the table: accepted, or rejected or lost
MeServed(i, accepted) ==
    meReqs' = [meReqs EXCEPT ![i].status = IF accepted THEN "ok" ELSE "fail"]

\* POST /projects/<id>/transactions is served, or is lost on the way
serveAdd(i, delivered) ==
    /\ i \in 1..Len(meReqs)
    /\ meReqs[i].kind = "add"
    /\ meReqs[i].status = "sent"
    /\ ledger' = IF delivered
                 THEN addTransaction(ledger, registry, meReqs[i].txn, nextId)
                 ELSE ledger
    /\ nextId' = nextId + Len(ledger') - Len(ledger)
    /\ MeServed(i, delivered /\ ValidTxn(registry, meReqs[i].txn))
    /\ UNCHANGED <<appVars, dashVars, registry, fuVars, deVars, meFormVars, meTableVars,
                   meError, meSuccess, psVars, delReqs, batchReqs, timers,
                   budgetVars>>

\* PUT /transactions/<id> is served, or is lost on the way
serveUpdate(i, delivered) ==
    /\ i \in 1..Len(meReqs)
    /\ meReqs[i].kind = "update"
    /\ meReqs[i].status = "sent"
    /\ ledger' = IF delivered
                 THEN updateTransaction(ledger, registry, meReqs[i].id,
                                        meReqs[i].txn)
                 ELSE ledger
    /\ MeServed(i, /\ delivered
                   /\ IndexOf(ledger, meReqs[i].id) # 0
                   /\ PatchAccepted(registry,
                                    ledger[IndexOf(ledger, meReqs[i].id)],
                                    meReqs[i].txn))
    /\ UNCHANGED <<appVars, dashVars, registry, nextId, fuVars, deVars, meFormVars,
                   meTableVars, meError, meSuccess, psVars, delReqs,
                   batchReqs, timers, budgetVars>>

\* DELETE /transactions/<id> is served, or is lost on the way
serveDeleteTransaction(i, delivered) ==
    /\ i \in 1..Len(meReqs)
    /\ meReqs[i].kind = "delete"
    /\ meReqs[i].status = "sent"
    /\ ledger' = IF delivered
                 THEN deleteTransaction(ledger, meReqs[i].id)
                 ELSE ledger
    /\ MeServed(i, delivered /\ IndexOf(ledger, meReqs[i].id) # 0)
    /\ UNCHANGED <<appVars, dashVars, registry, nextId, fuVars, deVars, meFormVars,
                   meTableVars, meError, meSuccess, psVars, delReqs,
                   batchReqs, timers, budgetVars>>

(* ---------------------------- specifications --------------------------- *)
Next ==
    \/ \E p \in {ProjectId} : handleSelectProject(p, FALSE)
    \/ \E v \in {"data-entry", "file-upload", "manual-entry", "edit-categories"} :
           handleNavigate(v)
    \/ handleBackToProjects
    \/ TimerFires
    \/ \E ok \in BOOLEAN : fuLoadCategories(ok)
    \/ \E f \in Files : handleFileSelect(f)
    \/ handleUpload
    \/ \E data \in ExtractResults : extractSucceeds(data)
    \/ extractFails
    \/ \E ok \in BOOLEAN, data \in ExtractResults : extractArrivesLate(ok, data)
    \/ \E i \in 1..Len(extractedData), f \in Fields :
           \E v \in StagingOptions(extractedData[i], f) : handleDataChange(i, f, v)
    \/ \E i \in 1..Len(extractedData) : handleRemoveRow(i)
    \/ fuHandleSubmit
    \/ \E i \in 1..Len(batchReqs) : fuSubmitSucceeded(i)
    \/ \E i \in 1..Len(batchReqs) : fuSubmitFailed(i)
    \/ fuBackToUpload
    \/ fuCancel
    \/ \E ok \in BOOLEAN : deLoadCategories(ok)
    \/ deHandleAddRow
    \/ \E i \in 1..Len(rows) : deHandleRemoveRow(i)
    \/ \E i \in 1..Len(rows), f \in Fields :
           \E v \in EntryOptions(deCategories, rows[i], f, Types \cup {""}) :
               handleRowChange(i, f, v)
    \/ deHandleSubmit
    \/ \E i \in 1..Len(batchReqs) : deSubmitSucceeded(i)
    \/ \E i \in 1..Len(batchReqs) : deSubmitFailed(i)
    \/ deCancel
    \/ \E ok \in BOOLEAN : meLoadInitialData(ok)
    \/ \E m \in meTxReqs, ok \in BOOLEAN : meLoadTransactions(m, ok)
    \/ \E f \in Fields :
           \E v \in EntryOptions(meCategories, newRow, f, Types) :
               handleNewRowChange(f, v)
    \/ meCancel
    \/ \E ok \in BOOLEAN : psLoadCategories(ok)
    \/ psComplete
    \/ \E i \in 1..Len(batchReqs), d \in BOOLEAN : serveBatch(i, d)

Spec == Init /\ [][Next]_vars

\* the import session while categories are being deleted in the category
\* editor: one supported file, category lists that load, requests that arrive
NextRegistry ==
    \/ \E p \in {ProjectId} : handleSelectProject(p, FALSE)
    \/ \E v \in {"file-upload", "edit-categories"} : handleNavigate(v)
    \/ TimerFires
    \/ psLoadCategories(TRUE)
    \/ \E c \in Range(InitialRegistry) : handleDeleteCategory(c.type, c.name)
    \/ \E c \in Range(InitialRegistry) : serveDelete(c)
    \/ psComplete
    \/ fuLoadCategories(TRUE)
    \/ handleFileSelect(CsvFile)
    \/ handleUpload
    \/ \E data \in ExtractResults : extractSucceeds(data)
    \/ \E i \in 1..Len(extractedData), f \in Fields :
           \E v \in StagingOptions(extractedData[i], f) : handleDataChange(i, f, v)
    \/ fuHandleSubmit
    \/ \E i \in 1..Len(batchReqs) : fuSubmitSucceeded(i)
    \/ \E i \in 1..Len(batchReqs) : fuSubmitFailed(i)
    \/ fuCancel
    \/ \E i \in 1..Len(batchReqs) : serveBatch(i, TRUE)

SpecRegistry == Init /\ [][NextRegistry]_vars


\* the transaction table of a project in use
NextTable ==
    \/ \E p \in {ProjectId} : handleSelectProject(p, FALSE)
    \/ handleNavigate("manual-entry")
    \/ meCancel
    \/ meLoadInitialData(TRUE)
    \/ \E m \in meTxReqs : meLoadTransactions(m, TRUE)
    \/ \E f \in {"type", "category", "amount"} :
           \E v \in EntryOptions(meCategories, newRow, f, Types) :
               ops < MaxTableEdits /\ handleNewRowChange(f, v)
    \/ handleAddRow
    \/ \E i \in 1..Len(meReqs) : meAddSucceeded(i)
    \/ \E ok \in BOOLEAN : meSummaryLoaded(ok)
    \/ \E i \in 1..Len(meReqs), k \in {"add", "update", "delete"} :
           meRequestFailed(i, k)
    \/ \E t \in Range(meTransactions) : handleEdit(t)
    \/ handleCancelEdit
    \/ \E f \in {"type", "category", "amount"} :
           \E v \in EntryOptions(meCategories, editForm, f, Types) :
               ops < MaxTableEdits /\ handleEditChange(f, v)
    \/ handleSaveEdit
    \/ \E i \in 1..Len(meReqs) : meUpdateSucceeded(i)
    \/ \E t \in Range(meTransactions) : handleDelete(t.id)
    \/ \E i \in 1..Len(meReqs) : meDeleteSucceeded(i)
    \/ meMessageTimeout
    \/ \E i \in 1..Len(meReqs), d \in BOOLEAN : serveAdd(i, d)
    \/ \E i \in 1..Len(meReqs), d \in BOOLEAN : serveUpdate(i, d)
    \/ \E i \in 1..Len(meReqs), d \in BOOLEAN : serveDeleteTransaction(i, d)

SpecTable == InitStocked /\ [][NextTable]_vars

\* the dashboard of a project in use, with deletions made in the table
NextDashboard ==
    \/ \E p \in {ProjectId} : handleSelectProject(p, FALSE)
    \/ ~dashLoading /\ handleNavigate("manual-entry")
    \/ meCancel
    \/ dashReadTransactions
    \/ dashReadSummary
    \/ dashLoadData
    \/ dashLoadDataFailed
    \/ \E m \in Range(dashAvailableMonths) :
           dashBrkReqs = {} /\ dashSelectMonth(m)
    \/ \E type \in Types : setBarChartType(type)
    \/ \E r \in dashBrkReqs, t \in Types : dashReadBreakdown(r, t)
    \/ \E r \in dashBrkReqs : dashLoadMonthlyBreakdown(r)
    \/ \E r \in dashBrkReqs : dashBreakdownFailed(r)
    \/ meLoadInitialData(TRUE)
    \/ \E m \in meTxReqs : meLoadTransactions(m, TRUE)
    \/ \E m \in Range(meAvailableMonths) : meTxReqs = {} /\ meSelectMonth(m)
    \/ \E t \in Range(meTransactions) : handleDelete(t.id)
    \/ \E i \in 1..Len(meReqs) : meDeleteSucceeded(i)
    \/ \E i \in 1..Len(meReqs) : serveDeleteTransaction(i, TRUE)

SpecDashboard == InitStocked /\ [][NextDashboard]_vars

\* the dashboard's reads next to the commits of import sessions
NextReads ==
    \/ \E p \in {ProjectId} : handleSelectProject(p, FALSE)
    \/ ~dashLoading /\ handleNavigate("file-upload")
    \/ ~dashLoading /\ handleBackToProjects
    \/ TimerFires
    \/ fuLoadCategories(TRUE)
    \/ handleFileSelect(CsvFile)
    \/ handleUpload
    \/ \E data \in ExtractResults : extractSucceeds(data)
    \/ \E i \in 1..Len(extractedData), f \in {"category", "amount"} :
           \E v \in StagingOptions(extractedData[i], f) : handleDataChange(i, f, v)
    \/ fuHandleSubmit
    \/ \E i \in 1..Len(batchReqs) : fuSubmitSucceeded(i)
    \/ \E i \in 1..Len(batchReqs) : fuSubmitFailed(i)
    \/ fuCancel
    \/ \E i \in 1..Len(batchReqs), d \in BOOLEAN : serveBatch(i, d)
    \/ dashReadTransactions
    \/ dashReadSummary
    \/ dashLoadData
    \/ \E r \in dashBrkReqs, t \in Types : dashReadBreakdown(r, t)
    \/ \E r \in dashBrkReqs : dashLoadMonthlyBreakdown(r)

SpecReads == Init /\ [][NextReads]_vars

\* the upload step alone, with files of every kind handleFileSelect tells
\* apart: by media type, by extension alone, and of no supported kind
UploadFiles ==
    { CsvFile, PdfFile,
      [mime |-> "", ext |-> "csv"],
      [mime |-> "application/json", ext |-> "json"],
      [mime |-> "application/octet-stream", ext |-> "xlsx"],
      [mime |-> "image/png", ext |-> "png"],
      [mime |-> "text/plain", ext |-> "txt"] }

NextUpload ==
    \/ \E p \in {ProjectId} : handleSelectProject(p, FALSE)
    \/ ~dashLoading /\ handleNavigate("file-upload")
    \/ fuLoadCategories(TRUE)
    \/ \E f \in UploadFiles : handleFileSelect(f)
    \/ handleUpload
    \/ \E data \in ExtractResults : extractSucceeds(data)
    \/ extractFails
    \/ fuBackToUpload
    \/ fuCancel
    \/ \E ok \in BOOLEAN, data \in ExtractResults : extractArrivesLate(ok, data)
    \/ dashReadTransactions
    \/ dashReadSummary
    \/ dashLoadData

SpecUpload == Init /\ [][NextUpload]_vars

\* projects opened as new or as existing ones, imports with their timers,
\* and the category setup
NextSetup ==
    \/ \E p \in {ProjectId}, isNew \in BOOLEAN : handleSelectProject(p, isNew)
    \/ ~dashLoading /\ handleNavigate("file-upload")
    \/ ~dashLoading /\ handleBackToProjects
    \/ TimerFires
    \/ fuLoadCategories(TRUE)
    \/ handleFileSelect(CsvFile)
    \/ handleUpload
    \/ \E data \in ExtractResults : extractSucceeds(data)
    \/ \E i \in 1..Len(extractedData) :
           \E v \in StagingOptions(extractedData[i], "category") :
               handleDataChange(i, "category", v)
    \/ fuHandleSubmit
    \/ \E i \in 1..Len(batchReqs) : fuSubmitSucceeded(i)
    \/ \E i \in 1..Len(batchReqs) : fuSubmitFailed(i)
    \/ fuCancel
    \/ \E i \in 1..Len(batchReqs), d \in BOOLEAN : serveBatch(i, d)
    \/ dashReadTransactions
    \/ dashReadSummary
    \/ dashLoadData
    \/ \E ok \in BOOLEAN : psLoadCategories(ok)
    \/ psComplete

SpecSetup == Init /\ [][NextSetup]_vars

\* every component that loads or extracts, each request answered or failing,
\* and the user moving between the views at will
NextLoads ==
    \/ \E p \in {ProjectId}, isNew \in BOOLEAN : handleSelectProject(p, isNew)
    \/ \E v \in {"data-entry", "file-upload", "manual-entry", "edit-categories"} :
           ~dashLoading /\ handleNavigate(v)
    \/ ~dashLoading /\ handleBackToProjects
    \/ dashReadTransactions
    \/ dashReadSummary
    \/ dashLoadData
    \/ dashLoadDataFailed
    \/ \E ok \in BOOLEAN : fuLoadCategories(ok)
    \/ handleFileSelect(CsvFile)
    \/ handleUpload
    \/ \E data \in ExtractResults : extractSucceeds(data)
    \/ extractFails
    \/ \E ok \in BOOLEAN, data \in ExtractResults : extractArrivesLate(ok, data)
    \/ fuBackToUpload
    \/ fuCancel
    \/ \E ok \in BOOLEAN : deLoadCategories(ok)
    \/ deCancel
    \/ \E ok \in BOOLEAN : meLoadInitialData(ok)
    \/ \E m \in meTxReqs, ok \in BOOLEAN : meLoadTransactions(m, ok)
    \/ \E m \in Range(meAvailableMonths) : meSelectMonth(m)
    \/ meCancel
    \/ \E ok \in BOOLEAN : psLoadCategories(ok)
    \/ psComplete

\* some request that is pending is answered, with a result or with an error,
\* and the continuation that awaits the answer runs
Answered ==
    \/ dashLoadData
    \/ dashLoadDataFailed
    \/ \E ok \in BOOLEAN : fuLoadCategories(ok)
    \/ \E data \in ExtractResults : extractSucceeds(data)
    \/ extractFails
    \/ \E ok \in BOOLEAN : deLoadCategories(ok)
    \/ \E ok \in BOOLEAN : meLoadInitialData(ok)
    \/ \E m \in meTxReqs, ok \in BOOLEAN : meLoadTransactions(m, ok)
    \/ \E ok \in BOOLEAN : psLoadCategories(ok)

SpecLoads == InitStocked /\ [][NextLoads]_vars /\ WF_vars(Answered)

(* ------------------------------- claims -------------------------------- *)
\* the request batchReqs[i] is answered by the back end in this step
Served(i) == batchReqs[i].status = "sent" /\ batchReqs'[i].status # "sent"

\* the session that is on screen has an uncategorized staged row
SomeRowUncategorized ==
    \E k \in 1..Len(extractedData) : extractedData[k].category = ""

\* C1: a Save click while some staged row has no category sends no batch
\* request, reports the error, and leaves step 2 and the staged rows as they are.
C1_IncompleteCommitBlocked ==
    [][(fuHandleSubmit /\ SomeRowUncategorized) =>
          /\ batchReqs' = batchReqs
          /\ fuError' = ErrAssign
          /\ fuSuccess' = NoMsg
          /\ step' = 2
          /\ extractedData' = extractedData
          /\ ledger' = ledger]_vars

C1_Witness ==
    /\ OnFileUpload
    /\ step = 2
    /\ fuError = ErrAssign
    /\ SomeRowUncategorized
    /\ batchReqs = <<>>

\* a row as the ledger validates it, written out without the model's helpers
RowStorable(r) ==
    /\ r.category # ""
    /\ \E j \in 1..Len(registry) :
           registry[j].type = r.type /\ registry[j].name = r.category
    /\ Len(r.amount) > 0
    /\ r.amount[1] \in Digits

\* C2: when a batch request is answered, either every row of the submitting
\* form has been appended to the ledger, in order, or the ledger is unchanged;
\* a form with a row the ledger does not accept adds nothing.
C2_BatchAllOrNothing ==
    [][\A i \in 1..Len(batchReqs) :
          Served(i) =>
             LET form == batchReqs[i].rows
                 n == Len(ledger)
             IN  /\ \/ ledger' = ledger
                    \/ /\ Len(ledger') = n + Len(form)
                       /\ SubSeq(ledger', 1, n) = ledger
                       /\ \A k \in 1..Len(form) :
                             /\ ledger'[n + k].date = form[k].date
                             /\ ledger'[n + k].type = form[k].type
                             /\ ledger'[n + k].category = form[k].category
                             /\ ledger'[n + k].description = form[k].description
                 /\ (\E k \in 1..Len(form) : ~RowStorable(form[k]))
                       => ledger' = ledger]_vars

C2_Witness ==
    \E i \in 1..Len(batchReqs) :
        /\ batchReqs[i].status = "fail"
        /\ Len(batchReqs[i].rows) = 2
        /\ \E k \in 1..2 : RowStorable(batchReqs[i].rows[k])
        /\ \E k \in 1..2 : ~RowStorable(batchReqs[i].rows[k])
        /\ ledger = <<>>

\* C3 (as claimed): the rows of one import session reach the ledger at most once.
C3_CommittedAtMostOnce ==
    Cardinality({i \in 1..Len(batchReqs) :
                    /\ batchReqs[i].src = "fu"
                    /\ batchReqs[i].sess = "live"
                    /\ batchReqs[i].status \in {"ok", "done_ok"}}) <= 1

\* C4 (as claimed): nothing of a session cancelled before any of its commits
\* was stored reaches the ledger afterwards.
C4_CancelledNeverStored ==
    \A i \in 1..Len(batchReqs) :
        batchReqs[i].sess = "cancelled" =>
            batchReqs[i].status \notin {"ok", "done_ok"}

\* the fields of a row other than type and category
SameOtherFields(r1, r2) ==
    /\ r1.date = r2.date
    /\ r1.amount = r2.amount
    /\ r1.description = r2.description

\* C5: a type change in the staging table, the entry form or the add-row form
\* empties that row's category, sets its type, and changes nothing else.
C5_TypeChangeResetsCategory ==
    [][/\ \A i \in 1..Len(extractedData), v \in Types :
             handleDataChange(i, "type", v) =>
                /\ Len(extractedData') = Len(extractedData)
                /\ extractedData'[i].category = ""
                /\ extractedData'[i].type = v
                /\ SameOtherFields(extractedData'[i], extractedData[i])
                /\ \A j \in 1..Len(extractedData) :
                       j # i => extractedData'[j] = extractedData[j]
       /\ \A i \in 1..Len(rows), v \in Types \cup {""} :
             handleRowChange(i, "type", v) =>
                /\ Len(rows') = Len(rows)
                /\ rows'[i].category = ""
                /\ rows'[i].type = v
                /\ SameOtherFields(rows'[i], rows[i])
                /\ \A j \in 1..Len(rows) : j # i => rows'[j] = rows[j]
       /\ \A v \in Types :
             handleNewRowChange("type", v) =>
                /\ newRow'.category = ""
                /\ newRow'.type = v
                /\ SameOtherFields(newRow', newRow)]_vars

C5_Witness ==
    /\ OnFileUpload
    /\ step = 2
    /\ ops = 3
    /\ Len(extractedData) = 2
    /\ extractedData[1].type = "Savings"
    /\ extractedData[1].category = ""
    /\ extractedData[2].type = "Expenses"

\* C6: a successful extraction stages the returned rows in order, every one
\* with an empty category and its other fields as returned.
C6_StagedWithoutCategory ==
    [][\A data \in ExtractResults :
          extractSucceeds(data) =>
             /\ step' = 2
             /\ Len(extractedData') = Len(data)
             /\ \A k \in 1..Len(data) :
                   /\ extractedData'[k].category = ""
                   /\ extractedData'[k].type = data[k].type
                   /\ SameOtherFields(extractedData'[k], data[k])]_vars

C6_Witness ==
    /\ OnFileUpload
    /\ step = 2
    /\ ops = 1
    /\ Len(extractedData) = 2
    /\ extractedData[1].type = "Income"
    /\ extractedData[1].category = ""

\* some row of the request names a category the registry does not hold for
\* the row's type
StaleCategory(req) ==
    \E k \in 1..Len(req.rows) :
        ~\E j \in 1..Len(registry) :
            /\ registry[j].type = req.rows[k].type
            /\ registry[j].name = req.rows[k].category

\* C7: a commit holding a row whose category is not in the registry for the
\* row's type when the request is served stores nothing and fails, and the
\* failure leaves the session in step 2 with its staged rows.
C7_StaleCategoryRejected ==
    [][/\ \A i \in 1..Len(batchReqs) :
             (Served(i) /\ StaleCategory(batchReqs[i])) =>
                 ledger' = ledger /\ batchReqs'[i].status = "fail"
       /\ \A i \in 1..Len(batchReqs) :
             (fuSubmitFailed(i) /\ batchReqs[i].sess = "live") =>
                 /\ step' = step
                 /\ extractedData' = extractedData
                 /\ fuError' = ErrSave
                 /\ fuSuccess' = fuSuccess
                 /\ timers' = timers
                 /\ currentView' = currentView]_vars

C7_Witness ==
    \E i \in 1..Len(batchReqs) :
        /\ batchReqs[i].status = "done_fail"
        /\ batchReqs[i].sess = "live"
        /\ StaleCategory(batchReqs[i])
        /\ \A k \in 1..Len(batchReqs[i].rows) :
               batchReqs[i].rows[k].category # ""
        /\ OnFileUpload
        /\ step = 2
        /\ fuError = ErrSave
        /\ extractedData = batchReqs[i].rows
        /\ ledger = <<>>

\* an amount text that is negative, or from which parseFloat reads no number
BadAmount(a) == Len(a) = 0 \/ a[1] = "-" \/ a[1] \notin Digits

\* C8: a commit holding a row whose amount is negative or not a number fails
\* and stores nothing, the failure leaves the session in step 2 with its
\* staged rows, and every stored amount is a number >= 0.
C8_BadAmountRejected ==
    [][/\ \A k \in 1..Len(ledger') : ledger'[k].amount >= 0
       /\ \A i \in 1..Len(batchReqs) :
             (Served(i) /\ \E k \in 1..Len(batchReqs[i].rows) :
                              BadAmount(batchReqs[i].rows[k].amount)) =>
                 ledger' = ledger /\ batchReqs'[i].status = "fail"
       /\ \A i \in 1..Len(batchReqs) :
             (fuSubmitFailed(i) /\ batchReqs[i].sess = "live") =>
                 step' = step /\ extractedData' = extractedData]_vars

C8_Witness ==
    \E i \in 1..Len(batchReqs) :
        /\ batchReqs[i].src = "fu"
        /\ batchReqs[i].status = "done_fail"
        /\ batchReqs[i].sess = "live"
        /\ \E k \in 1..Len(batchReqs[i].rows) :
               /\ batchReqs[i].rows[k].amount = SNeg5
               /\ batchReqs[i].rows[k].category = "Rent"
        /\ OnFileUpload
        /\ step = 2
        /\ fuError = ErrSave
        /\ extractedData = batchReqs[i].rows
        /\ ledger = <<>>

\* C9 (as claimed): a failed extraction leaves the session in step 1 holding
\* no staged rows, and leaves the ledger alone.
C9_FailureRetainsNothing ==
    [][extractFails =>
          /\ step' = 1
          /\ ~fuLoading'
          /\ extractedData' = <<>>
          /\ ledger' = ledger]_vars

\* the state of the import session on screen, in the specification's terms
Phase ==
    IF ~OnFileUpload THEN "Gone"
    ELSE IF Committed THEN "Committed"
    ELSE IF step = 2 THEN "Staged"
    ELSE IF fuLoading THEN "Extracting"
    ELSE "Idle"

\* C10 (as claimed): the session moves only Idle -> Extracting -> Staged ->
\* Committed, Extracting -> Idle on failure, and out of the view.
C10_OnlySpecifiedTransitions ==
    [][Phase' # Phase =>
          \/ Phase' = "Gone"
          \/ Phase = "Gone" /\ Phase' = "Idle"
          \/ Phase = "Idle" /\ Phase' = "Extracting"
          \/ Phase = "Extracting" /\ Phase' \in {"Staged", "Idle"}
          \/ Phase = "Staged" /\ Phase' = "Committed"]_vars

\* the request the Save click of this step has posted, if it posted one
Posted == batchReqs'[Len(batchReqs')]

\* C11: the ledger changes only when a posted batch request is served and
\* accepted; selecting a file, extracting, editing or removing a staged row
\* and going back leave the ledger and the requests alone; a Save click that
\* posts, posts one request holding every staged row, in order.
C11_LedgerOnlyThroughCommit ==
    [][/\ ledger' # ledger =>
             \E i \in 1..Len(batchReqs) :
                 Served(i) /\ batchReqs'[i].status = "ok"
       /\ (\/ \E f \in Files : handleFileSelect(f)
           \/ handleUpload
           \/ \E data \in ExtractResults : extractSucceeds(data)
           \/ extractFails
           \/ \E i \in 1..Len(extractedData), f \in Fields :
                 \E v \in StagingOptions(extractedData[i], f) :
                     handleDataChange(i, f, v)
           \/ \E i \in 1..Len(extractedData) : handleRemoveRow(i)
           \/ fuBackToUpload)
             => ledger' = ledger /\ batchReqs' = batchReqs
       /\ (fuHandleSubmit /\ batchReqs' # batchReqs) =>
             /\ ledger' = ledger
             /\ Len(batchReqs') = Len(batchReqs) + 1
             /\ SubSeq(batchReqs', 1, Len(batchReqs)) = batchReqs
             /\ Posted.status = "sent"
             /\ Len(Posted.txns) = Len(extractedData)
             /\ \A k \in 1..Len(extractedData) :
                   /\ Posted.txns[k].date = extractedData[k].date
                   /\ Posted.txns[k].type = extractedData[k].type
                   /\ Posted.txns[k].category = extractedData[k].category
                   /\ Posted.txns[k].description = extractedData[k].description]_vars

C11_Witness ==
    /\ OnFileUpload
    /\ step = 2
    /\ Len(extractedData) = 1
    /\ Len(batchReqs) = 1
    /\ batchReqs[1].src = "fu"
    /\ batchReqs[1].status = "ok"
    /\ batchReqs[1].rows = extractedData
    /\ Len(ledger) = 1
    /\ ops = 3

\* C18: a step that changes the category registry changes no transaction,
\* whether or not a stored transaction uses the deleted category.
C18_DeleteCategoryKeepsLedger ==
    [][registry' # registry => ledger' = ledger]_vars

C18_Witness ==
    /\ \E k \in 1..Len(ledger) :
          /\ ledger[k].type = "Expenses"
          /\ ledger[k].category = "Rent"
    /\ ~\E j \in 1..Len(registry) :
          registry[j].type = "Expenses" /\ registry[j].name = "Rent"

\* C20: when the failure of a commit's batch request reaches the import view,
\* its step and staged rows stay, the error is shown, no success message and
\* no navigation timer is set, and the view stays.
C20_FailedCommitStaysStaged ==
    [][\A i \in 1..Len(batchReqs) :
          (/\ batchReqs[i].src = "fu"
           /\ batchReqs[i].sess = "live"
           /\ batchReqs[i].status = "fail"
           /\ batchReqs'[i].status = "done_fail") =>
              /\ step' = step
              /\ extractedData' = extractedData
              /\ fuError' = ErrSave
              /\ fuSuccess' = fuSuccess
              /\ timers' = timers
              /\ currentView' = currentView
              /\ ledger' = ledger]_vars

\* a failed commit has been retried with the same rows and the retry stored
C20_Witness ==
    /\ OnFileUpload
    /\ step = 2
    /\ Len(batchReqs) = 2
    /\ batchReqs[1].src = "fu"
    /\ batchReqs[1].status = "done_fail"
    /\ batchReqs[2].status = "ok"
    /\ batchReqs[2].rows = batchReqs[1].rows
    /\ batchReqs[2].rows = extractedData
    /\ batchReqs[1].sess = "live"
    /\ batchReqs[2].sess = "live"
    /\ Len(extractedData) >= 1
    /\ Len(ledger) = Len(extractedData)

\* the number an amount text of an optional sign and digits denotes
Denotes(a, n) ==
    \/ /\ Len(a) > 0
       /\ \A k \in 1..Len(a) : a[k] \in Digits
       /\ n = ParseDigits(a, 1, 0)
    \/ /\ Len(a) > 1
       /\ a[1] = "-"
       /\ \A k \in 2..Len(a) : a[k] \in Digits
       /\ n = 0 - ParseDigits(a, 2, 0)
    \/ \E k \in 1..Len(a) : a[k] \notin Digits \cup {"-"}

\* C12: when a commit of the import view is stored, the transaction list of
\* each row's month holds exactly one new transaction per staged row with the
\* row's date, type, category, amount and description, no other new
\* transaction, and the transactions it held before.
C12_CommitRoundTrip ==
    [][\A i \in 1..Len(batchReqs) :
          (Served(i) /\ batchReqs[i].src = "fu" /\ batchReqs'[i].status = "ok") =>
             LET form == batchReqs[i].rows
                 New(list) == SelectSeq(list, LAMBDA t : t.id >= nextId)
                 Old(list) == SelectSeq(list, LAMBDA t : t.id < nextId)
             IN  /\ \A k \in 1..Len(form) :
                       LET got == SelectSeq(
                                     listTransactions(ledger', MonthKey(form[k].date)),
                                     LAMBDA t : t.id = nextId + k - 1)
                       IN  /\ Len(got) = 1
                           /\ got[1].date = form[k].date
                           /\ got[1].type = form[k].type
                           /\ got[1].category = form[k].category
                           /\ got[1].description = form[k].description
                           /\ Denotes(form[k].amount, got[1].amount)
                 /\ \A m \in MonthsOf(ledger') :
                       /\ Old(listTransactions(ledger', m)) = listTransactions(ledger, m)
                       /\ Len(New(listTransactions(ledger', m)))
                             = Cardinality({k \in 1..Len(form) :
                                               MonthKey(form[k].date) = m})]_vars

C12_Witness ==
    /\ Len(batchReqs) = 1
    /\ batchReqs[1].src = "fu"
    /\ batchReqs[1].status = "ok"
    /\ Len(batchReqs[1].rows) = 2
    /\ batchReqs[1].rows[1] = batchReqs[1].rows[2]
    /\ Len(listTransactions(ledger, <<6, 2024>>)) = 2
    /\ Len(ledger) = 2

\* C19: the "+ Add" button posts nothing while the new row lacks a date, a
\* category or an amount; a posted addTransaction changes the ledger only when
\* its amount is a number >= 0 and its category exists for its type, and then
\* by appending that one transaction; any other add is answered as failed and
\* leaves the ledger as it was.
C19_InvalidAddNeverStored ==
    [][/\ (/\ handleAddRow
           /\ (newRow.date = "" \/ newRow.category = "" \/ newRow.amount = SEmpty))
             => meReqs' = meReqs /\ ledger' = ledger
       /\ \A i \in 1..Len(meReqs) :
             (/\ meReqs[i].kind = "add"
              /\ meReqs[i].status = "sent"
              /\ meReqs'[i].status # "sent") =>
                 LET t == meReqs[i].txn
                     storable == /\ t.amount.kind = "num"
                                 /\ t.amount.val >= 0
                                 /\ categoryExists(registry, t.type, t.category)
                 IN  /\ ledger' # ledger =>
                           /\ storable
                           /\ ledger' = Append(ledger, StoredTxn(t, nextId))
                     /\ ~storable =>
                           /\ ledger' = ledger
                           /\ meReqs'[i].status = "fail"]_vars

\* an add with a negative amount and an existing category has been posted,
\* refused, and reported in the table
C19_Witness ==
    /\ Len(meReqs) = 1
    /\ meReqs[1].kind = "add"
    /\ meReqs[1].txn.amount = Num(0 - 5)
    /\ categoryExists(registry, meReqs[1].txn.type, meReqs[1].txn.category)
    /\ meReqs[1].status = "done_fail"
    /\ meReqs[1].sess = "live"
    /\ meError = MeErrAdd
    /\ ledger = StockLedger

\* C17: changing the type in the edit row keeps the row's category, Save
\* posts that pair, and an update whose new type has no category of the
\* patch's name in the registry is answered as failed and leaves every stored
\* transaction as it was.
C17_UpdateRevalidates ==
    [][/\ \A v \in Types :
             handleEditChange("type", v) =>
                 editForm'.type = v /\ editForm'.category = editForm.category
       /\ handleSaveEdit =>
             LET sent == meReqs'[Len(meReqs')]
             IN  /\ sent.kind = "update"
                 /\ sent.id = editingId
                 /\ sent.txn.type = editForm.type
                 /\ sent.txn.category = editForm.category
       /\ \A i \in 1..Len(meReqs) :
             (/\ meReqs[i].kind = "update"
              /\ meReqs[i].status = "sent"
              /\ meReqs'[i].status # "sent") =>
                 LET k == IndexOf(ledger, meReqs[i].id)
                     patch == meReqs[i].txn
                 IN  (/\ k # 0
                      /\ patch.type # ledger[k].type
                      /\ ~categoryExists(registry, patch.type, patch.category))
                         => /\ ledger' = ledger
                            /\ meReqs'[i].status = "fail"]_vars

\* the type of a stored transaction has been changed in the edit row, its
\* category kept, the update posted, refused and reported
C17_Witness ==
    /\ Len(meReqs) = 1
    /\ meReqs[1].kind = "update"
    /\ meReqs[1].status = "done_fail"
    /\ meReqs[1].sess = "live"
    /\ \E k \in 1..Len(ledger) :
          /\ ledger[k].id = meReqs[1].id
          /\ ledger[k].type # meReqs[1].txn.type
          /\ ledger[k].category = meReqs[1].txn.category
          /\ ledger[k].amount = meReqs[1].txn.amount.val
    /\ editingId = meReqs[1].id
    /\ meError = MeErrUpdate
    /\ ledger = StockLedger

\* the total of a type in a month of a summary, 0 when the month or the type
\* is absent from it
TotalIn(summary, month, type) ==
    IF month \in DOMAIN summary /\ type \in DOMAIN summary[month]
    THEN summary[month][type]
    ELSE 0

\* C16: the net change the dashboard shows is the Income total minus the
\* Expenses total of the selected month in the summary it holds, a month or
\* type absent from the summary counting 0 and the Savings total not
\* entering.
C16_NetChange ==
    (OnDashboard /\ ~dashLoading) =>
        getNetChange = TotalIn(dashSummary, dashSelectedMonth, "Income")
                       - TotalIn(dashSummary, dashSelectedMonth, "Expenses")

\* the dashboard shows a month with Income, Expenses and Savings totals
C16_Witness ==
    /\ OnDashboard
    /\ ~dashLoading
    /\ dashSelectedMonth = <<6, 2024>>
    /\ getMonthTotal("Income") = 10
    /\ getMonthTotal("Expenses") = 7
    /\ getMonthTotal("Savings") = 5
    /\ getNetChange = 3

\* the sum of the values of a breakdown over the categories in S
RECURSIVE SumOver(_, _)
SumOver(f, S) ==
    IF S = {} THEN 0
    ELSE LET c == CHOOSE x \in S : TRUE
         IN  f[c] + SumOver(f, S \ {c})

SumOfValues(f) == SumOver(f, DOMAIN f)

\* C13: for every month and type the values of the ledger's breakdown sum to
\* the ledger's summary total; and when the dashboard stores the breakdowns
\* loaded for its selected month, each type's breakdown sums to the total of
\* that type the dashboard holds for the month.
C13_TotalsReconcile ==
    [][/\ \A m \in MonthsOf(ledger), ty \in Types :
             SumOfValues(breakdown(ledger, m, ty))
                 = TotalIn(summarize(ledger), m, ty)
       /\ \A r \in dashBrkReqs :
             (dashLoadMonthlyBreakdown(r) /\ r.month = dashSelectedMonth) =>
                 \A ty \in Types :
                     SumOfValues(monthlyBreakdown'[ty])
                         = TotalIn(dashSummary', dashSelectedMonth', ty)]_vars

\* the number of rows of the batch requests 1..n that the ledger accepted
RECURSIVE RowsAccepted(_)
RowsAccepted(n) ==
    IF n = 0 THEN 0
    ELSE RowsAccepted(n - 1)
         + (IF batchReqs[n].status \in {"ok", "done_ok"}
            THEN Len(batchReqs[n].txns) ELSE 0)

\* the ledger holds every row of each accepted batch, side by side and in
\* order, and no row of any other batch
WholeBatches(led) ==
    /\ Len(led) = RowsAccepted(Len(batchReqs))
    /\ \A i \in 1..Len(batchReqs) :
          (batchReqs[i].status \in {"ok", "done_ok"} /\ batchReqs[i].txns # <<>>) =>
             \E j \in 1..Len(led) :
                \A k \in 1..Len(batchReqs[i].txns) :
                   /\ j + k - 1 <= Len(led)
                   /\ led[j + k - 1]
                        = StoredTxn(batchReqs[i].txns[k], led[j].id + k - 1)

\* C14: a read of the transaction list, the summary or a breakdown that is
\* served while batch requests are outstanding or have been answered changes
\* no transaction and answers from a ledger that holds all rows of every
\* accepted batch and no row of a batch not yet, or not, accepted.
C14_ReadsSeeWholeBatches ==
    [][/\ dashReadTransactions =>
             /\ ledger' = ledger
             /\ WholeBatches(ledger)
             /\ dashDataReq'.txns = <<AllTransactions(ledger)>>
       /\ dashReadSummary =>
             /\ ledger' = ledger
             /\ WholeBatches(ledger)
             /\ dashDataReq'.summary = <<summarize(ledger)>>
       /\ \A r \in dashBrkReqs, t \in Types :
             dashReadBreakdown(r, t) =>
                 /\ ledger' = ledger
                 /\ WholeBatches(ledger)
                 /\ \E a \in dashBrkReqs' :
                       /\ a.month = r.month
                       /\ t \in DOMAIN a.resp
                       /\ a.resp[t] = breakdown(ledger, r.month, t)]_vars

\* the dashboard's summary read was served before a commit of two rows and
\* its list read after it
C14_Witness ==
    /\ OnDashboard
    /\ dashDataReq.pending
    /\ dashDataReq.summary = <<summarize(<<>>)>>
    /\ dashDataReq.txns = <<AllTransactions(ledger)>>
    /\ Len(ledger) = 2
    /\ Len(batchReqs) = 1
    /\ batchReqs[1].status = "ok"
    /\ Len(batchReqs[1].txns) = 2

\* C15: Cancel while an extraction is outstanding leaves the import view for
\* the dashboard with nothing staged and no ledger change; when the result of
\* that extraction arrives, success or failure, no staged row, step, message
\* or file of the import view on screen, no view, no project, no request and
\* no transaction changes.
C15_LateExtractionDiscarded ==
    [][/\ (fuCancel /\ extractReq.pending) =>
             /\ currentView' = "dashboard"
             /\ extractedData' = <<>>
             /\ step' = 1
             /\ ~extractReq'.pending
             /\ ledger' = ledger
             /\ batchReqs' = EndSession(batchReqs, "cancelled")
                  \/ batchReqs' = EndSession(batchReqs, "closed")
       /\ orphanExtracts'.discarded > orphanExtracts.discarded =>
                 /\ extractedData' = extractedData
                 /\ step' = step
                 /\ file' = file
                 /\ fuLoading' = fuLoading
                 /\ fuError' = fuError
                 /\ fuSuccess' = fuSuccess
                 /\ extractReq' = extractReq
                 /\ currentView' = currentView
                 /\ currentProject' = currentProject
                 /\ ledger' = ledger
                 /\ batchReqs' = batchReqs
                 /\ timers' = timers]_vars

\* the result of an abandoned extraction has come while a later import
\* session was on screen with a file chosen, and nothing is staged or stored
C15_Witness ==
    /\ orphanExtracts.discarded = 1
    /\ OnFileUpload
    /\ file # NoFile
    /\ step = 1
    /\ extractedData = <<>>
    /\ ~extractReq.pending
    /\ ledger = <<>>
    /\ batchReqs = <<>>


SupportedTypes == {"csv", "json", "excel", "image"}

\* C21: an extraction is requested only for the file selected at that moment,
\* with a declared format that is one of csv, json, excel and image and that
\* was determined from that very file; a file of no supported format is never
\* the selection, so no request can be issued for it
C21_ExtractOnlySupported ==
    /\ [](file # NoFile => fileType \in SupportedTypes /\ fileType = DeclaredType(file))
    /\ [](extractReq.pending =>
              /\ extractReq.file # NoFile
              /\ extractReq.fileType \in SupportedTypes
              /\ extractReq.fileType = DeclaredType(extractReq.file))
    /\ [][/\ (~extractReq.pending /\ extractReq'.pending) =>
                 /\ file # NoFile
                 /\ extractReq'.file = file
                 /\ extractReq'.fileType = fileType
          /\ (file' # file /\ file' # NoFile) => DeclaredType(file') \in SupportedTypes
          /\ (fuError # ErrUnsupported /\ fuError' = ErrUnsupported) => file' = NoFile]_vars

\* an extraction is in flight for a file recognised by its extension alone,
\* and the unsupported file chosen meanwhile has been refused and cleared
C21_Witness ==
    /\ extractReq.pending
    /\ extractReq.file = [mime |-> "application/octet-stream", ext |-> "xlsx"]
    /\ extractReq.fileType = "excel"
    /\ fuError = ErrUnsupported
    /\ file = NoFile
    /\ fileType = "excel"


\* the bar chart is drawn: loading is over and a month is selected
ChartShown == OnDashboard /\ ~dashLoading /\ dashSelectedMonth # NoMonth

\* C22: the bar chart has twelve values, January to December of the year of
\* the selected month, each the total of the selected type in the summary of
\* that month or 0 where the summary has none, and exactly one highlighted
\* bar, that of the selected month
C22_BarChartOfSelectedYear ==
    ChartShown =>
        LET chart == createBarChartData
            mm == dashSelectedMonth[1]
            yyyy == dashSelectedMonth[2]
        IN  /\ DOMAIN chart.data = 1..12
            /\ \A m \in 1..12 :
                   chart.data[m] =
                       IF \E k \in DOMAIN dashSummary :
                              k = <<m, yyyy>> /\ barChartType \in DOMAIN dashSummary[k]
                       THEN dashSummary[<<m, yyyy>>][barChartType]
                       ELSE 0
            /\ {m \in 1..12 : chart.highlighted[m]} = {mm}

\* a month of an earlier year is selected and the chart shows income: its
\* December bar carries that month's income and the highlight, and June of
\* the current year, which has income too, shows nothing
C22_Witness ==
    /\ ChartShown
    /\ dashSelectedMonth = <<12, 2023>>
    /\ barChartType = "Income"
    /\ createBarChartData.data[12] = 3
    /\ createBarChartData.data[6] = 0
    /\ <<6, 2024>> \in DOMAIN dashSummary
    /\ createBarChartData.highlighted[12]


\* C23: whenever a view other than the project list is current, a project is
\* selected
C23_ViewHasProject ==
    currentView # "project-selection" => currentProject # NoProject

\* C24: the navigation to the dashboard that a successful save schedules
\* changes the current view only when it fires in the view that scheduled it:
\* a timer that fires after the user has left that import session leaves
\* currentView alone
C24_TimerOnlyInItsView ==
    [][(timers' < timers /\ currentView' # currentView) =>
           /\ currentView \in {"file-upload", "data-entry"}
           /\ \E i \in 1..Len(batchReqs) :
                  /\ batchReqs[i].sess = "live"
                  /\ batchReqs[i].status = "done_ok"]_vars


\* C25: a Save click in FileUpload while no row is staged, the rows having
\* all been removed or the extraction having returned none, sends no batch
\* request, and no import of zero transactions is ever reported as a success
C25_EmptyCommitSendsNothing ==
    [][/\ (OnFileUpload /\ step = 2 /\ extractedData = <<>>) =>
              Len(batchReqs') = Len(batchReqs)
       /\ fuSuccess' # Imported(0)]_vars


\* the category of a row is blank or one of the loaded list of the row's type
CategoryOfItsType(cats, row) ==
    \/ row.category = ""
    \/ /\ row.type \in Types
       /\ row.category \in Range(cats[row.type])

\* C26: whatever rows have been edited or removed and whatever types have
\* been changed, every staged row of FileUpload and every row of DataEntry has
\* a category that is blank or belongs, in the loaded list, to the row's
\* current type; and every row of a batch that is sent carries a category the
\* loaded list has for the row's type
C26_CategoryBelongsToType ==
    /\ [](OnFileUpload =>
              \A i \in 1..Len(extractedData) :
                  CategoryOfItsType(fuCategories, extractedData[i]))
    /\ [](OnDataEntry =>
              \A i \in 1..Len(rows) : CategoryOfItsType(deCategories, rows[i]))
    /\ [][Len(batchReqs') > Len(batchReqs) =>
              \A k \in 1..Len(Posted.txns) :
                  /\ Posted.txns[k].category # ""
                  /\ CategoryOfItsType(IF Posted.src = "fu" THEN fuCategories
                                                            ELSE deCategories,
                                       Posted.txns[k])]_vars

\* a staged row, extracted without a category, was edited to the type Income
\* and to Salary, a category the loaded list has for Income, and was sent so
C26_Witness ==
    /\ OnFileUpload
    /\ Len(batchReqs) = 1
    /\ batchReqs[1].src = "fu"
    /\ Len(extractedData) = 1
    /\ extractedData[1].type = "Income"
    /\ extractedData[1].category = "Salary"
    /\ extractedData[1].description = "x"
    /\ batchReqs[1].txns[1].category = "Salary"
    /\ batchReqs[1].txns[1].type = "Income"


\* C27: DataEntry's submit sends no row that lacks a date, a type, a category
\* or an amount, sends nothing and leaves the rows alone when no row is
\* complete, and a row the user has entered leaves the form only if it was
\* among the rows that were sent and saved
C27_NoRowLostOrSentIncomplete ==
    [][/\ (Len(batchReqs') > Len(batchReqs) /\ Posted.src = "de") =>
              /\ Len(validRows(rows)) > 0
              /\ Posted.txns = deTransactions(validRows(rows))
              /\ \A k \in 1..Len(Posted.rows) :
                     Posted.rows[k] \in Range(validRows(rows)) =>
                         /\ Posted.rows[k].date # ""
                         /\ Posted.rows[k].type # ""
                         /\ Posted.rows[k].category # ""
                         /\ Posted.rows[k].amount # SEmpty
              /\ rows' = rows
       /\ (OnDataEntry /\ Len(validRows(rows)) = 0) =>
              Len(batchReqs') = Len(batchReqs)
       /\ \A i \in 1..Len(batchReqs) :
              (/\ batchReqs[i].src = "de"
               /\ batchReqs[i].sess = "live"
               /\ batchReqs[i].status = "ok"
               /\ batchReqs'[i].status = "done_ok")
              => \A k \in 1..Len(rows) :
                     \/ rows[k] \in Range(rows')
                     \/ rows[k] = EmptyRow
                     \/ rows[k] \in Range(validRows(batchReqs[i].rows))]_vars


\* C28: a project is opened from the project list into the category setup or
\* the dashboard only; the dashboard is entered from the setup of a new
\* project only when the categories have loaded and some category is listed;
\* and once they have loaded, "Continue to Dashboard" is enabled exactly when
\* some category is listed
C28_SetupBeforeDashboard ==
    [][/\ (currentView = "project-selection" /\ currentView' # currentView) =>
              currentView' \in {"project-setup", "dashboard"}
       /\ (currentView = "project-setup" /\ currentView' = "dashboard") =>
              /\ ~psLoading
              /\ \E t \in Types : psCategories[t] # <<>>
       /\ (currentView = "project-setup" /\ currentProject # NoProject /\ ~psLoading) =>
              (ENABLED psComplete <=> \E t \in Types : psCategories[t] # <<>>)]_vars


\* C29: a load or an extraction that a component has started ends with the
\* component's loading flag cleared, whether the request succeeds or fails,
\* unless the component has left the screen by then: loadData of Dashboard,
\* loadCategories of ProjectSetup and DataEntry, handleUpload of FileUpload,
\* and loadInitialData of ManualEntry with the loadTransactions it starts
C29_LoadingEnds ==
    /\ (OnDashboard /\ dashLoading) ~> (~OnDashboard \/ ~dashLoading)
    /\ (OnProjectSetup /\ psLoading) ~> (~OnProjectSetup \/ ~psLoading)
    /\ (OnDataEntry /\ deLoading) ~> (~OnDataEntry \/ ~deLoading)
    /\ (OnFileUpload /\ fuLoading) ~> (~OnFileUpload \/ ~fuLoading)
    /\ (OnManualEntry /\ meLoading) ~> (~OnManualEntry \/ ~meLoading)

\* an extraction has failed in a FileUpload that is still on screen, and its
\* loading flag is clear
C29_Witness ==
    /\ OnFileUpload
    /\ fuError = ErrExtract
    /\ ~extractReq.pending
    /\ ~fuLoading
    /\ file # NoFile


\* month a is chronologically before month b: by year, then by month
ChronBefore(a, b) == a[2] < b[2] \/ (a[2] = b[2] /\ a[1] < b[1])

\* C30: when the Dashboard has loaded, the selected month is the current
\* month if the summary has it, otherwise the most recent month of the
\* summary by year and then month; and the month selector lists the months of
\* the summary in chronological order
C30_MonthsChronological ==
    [][(OnDashboard /\ dashLoading /\ ~dashLoading' /\ dashSelectedMonth' # NoMonth) =>
           LET months == DOMAIN dashSummary'
           IN  /\ CurrentMonth \in months => dashSelectedMonth' = CurrentMonth
               /\ (CurrentMonth \notin months /\ months # {}) =>
                      /\ dashSelectedMonth' \in months
                      /\ \A m \in months \ {dashSelectedMonth'} :
                             ChronBefore(m, dashSelectedMonth')
               /\ Range(dashAvailableMonths') = months
               /\ \A i, j \in 1..Len(dashAvailableMonths') :
                      i < j => ChronBefore(dashAvailableMonths'[i],
                                           dashAvailableMonths'[j])]_vars

====
